---- MODULE Spec2Model ----
(***************************************************************************)
(* Adaptive polling scheduler and star store of hoshiyomi-rs.              *)
(*                                                                         *)
(* Time is counted in whole seconds since an arbitrary epoch; intervals    *)
(* and gaps are minutes, as in the source.  Option<T> is the empty tuple   *)
(* (None) or a one-element tuple (Some(v)).  f64 values (ema_minutes) are  *)
(* exact rationals [n, d] in lowest terms.                                 *)
(***************************************************************************)
EXTENDS Integers, Sequences, FiniteSets, TLC

VARIABLES
    config,     \* the resolved Config record of the process
    now,        \* the wall clock, Utc::now(), in seconds
    users,      \* table users: user_id -> row
    stars,      \* table stars: set of rows
    tasks,      \* process_user invocations: task id -> task record
    sched,      \* poll_once: the position and locals of the running cycle
    ghost       \* history used only to state properties

vars == <<config, now, users, stars, tasks, sched, ghost>>

----------------------------------------------------------------------------
\* Bounds of the model.

\* user ids the forge may list as followings
NumUsers == 2
\* process_user invocations per behaviour of the store specification
MaxCalls == 2
\* the clock stops advancing at this many seconds
MaxTime == 660
\* poll_once cycles per behaviour of the poller specification
MaxCycles == 3
\* fetch_followings calls of one fetch_followings_with_retry the model follows
MaxAttempts == 3
\* the clock of the server specification stops advancing at this many seconds
MaxServerTime == 240

UserIds == 1 .. NumUsers

----------------------------------------------------------------------------
\* Option<T>

None == << >>

Some(v) == << v >>

IsSome(o) == o # None

Unwrap(o) == o[1]

\* chrono::Duration::minutes(n) in seconds
Minutes(n) == n * 60

\* chrono::Duration::num_minutes(): whole minutes, truncated toward zero
NumMinutes(secs) == IF secs >= 0 THEN secs \div 60 ELSE -((-secs) \div 60)

Max2(a, b) == IF a >= b THEN a ELSE b


\* i64::clamp(lo, hi)
Clamp(x, lo, hi) == IF x < lo THEN lo ELSE IF x > hi THEN hi ELSE x

----------------------------------------------------------------------------
\* Exact rationals standing for the f64 values of recompute_interval.

RECURSIVE Gcd(_, _)
Gcd(a, b) == IF b = 0 THEN a ELSE Gcd(b, a % b)

Abs(x) == IF x < 0 THEN -x ELSE x

\* n/d in lowest terms, d > 0
Rat(n, d) ==
    LET g == Gcd(Abs(n), d)
    IN  IF n = 0 THEN [n |-> 0, d |-> 1] ELSE [n |-> n \div g, d |-> d \div g]

\* `x as f64` for an i64
RatOfInt(i) == [n |-> i, d |-> 1]

RatLess(a, b) == a.n * b.d < b.n * a.d

\* f64::clamp(lo, hi)
RatClamp(x, lo, hi) == IF RatLess(x, lo) THEN lo ELSE IF RatLess(hi, x) THEN hi ELSE x

\* Mutant of EmaStep: the gap and the current EMA weigh the same
EmaStepUnweighted(gap, current) == Rat(gap * current.d + current.n, 2 * current.d)

\* alpha * gap + (1.0 - alpha) * current with alpha = 0.3
EmaStep(gap, current) == Rat(3 * gap * current.d + 7 * current.n, 10 * current.d)

\* f64::round() as i64 for a positive value: half rounds away from zero
RatRound(x) == (2 * x.n + x.d) \div (2 * x.d)

----------------------------------------------------------------------------
\* CadenceEngine (db.rs)

\* derive_activity_tier
derive_activity_tier(interval_minutes) ==
    IF interval_minutes <= 60 THEN "high"
    ELSE IF interval_minutes <= 24 * 60 THEN "medium"
    ELSE "low"

\* The events of a batch, ascending by starred_at (sort_by_key); the order of
\* events that share a timestamp does not change any gap.
RECURSIVE SortedByStarredAt(_)
SortedByStarredAt(events) ==
    IF events = {} THEN << >>
    ELSE LET first == CHOOSE e \in events : \A f \in events : e.starred_at <= f.starred_at
         IN  << first >> \o SortedByStarredAt(events \ {first})

\* The loop of compute_gap_minutes and of compute_average_gap_minutes: the
\* positive minute gaps between consecutive timestamps, seeded with prev.
RECURSIVE PositiveGaps(_, _)
PositiveGaps(times, prev) ==
    IF times = << >> THEN << >>
    ELSE LET gap == IF IsSome(prev) THEN NumMinutes(Head(times) - Unwrap(prev)) ELSE 0
         IN  (IF gap > 0 THEN << gap >> ELSE << >>)
                 \o PositiveGaps(Tail(times), Some(Head(times)))

compute_gap_minutes(events, previous_last_starred) ==
    LET sorted == SortedByStarredAt(events)
    IN  PositiveGaps([i \in 1 .. Len(sorted) |-> sorted[i].starred_at], previous_last_starred)

RECURSIVE SumSeq(_)
SumSeq(s) == IF s = << >> THEN 0 ELSE Head(s) + SumSeq(Tail(s))

\* compute_average_gap_minutes: SELECT starred_at ... ORDER BY starred_at ASC
\* Mutant of compute_average_gap_minutes: the stored stars are not read
compute_average_gap_minutes_of_nothing(star_rows, user_id) == None

compute_average_gap_minutes(star_rows, user_id) ==
    LET mine == SortedByStarredAt({r \in star_rows : r.user_id = user_id})
        gaps == PositiveGaps([i \in 1 .. Len(mine) |-> mine[i].starred_at], None)
    IN  IF Len(gaps) = 0 THEN None ELSE Some(Rat(SumSeq(gaps), Len(gaps)))

\* One iteration of the `for gap in &gaps` loop of recompute_interval, on the
\* loop state st = [star_count, ema, interval_minutes].
WalkStep(st, gap, avg, fallback_default, min_f, max_f) ==
    LET star_count == st.star_count + 1
        gap_minutes == Max2(gap, 1)
    IN  IF star_count < 3
        THEN [star_count |-> star_count, ema |-> None, interval_minutes |-> fallback_default]
        ELSE LET seeded == IF IsSome(st.ema) THEN Unwrap(st.ema)
                           ELSE RatClamp(IF IsSome(avg) THEN Unwrap(avg)
                                         ELSE RatOfInt(fallback_default), min_f, max_f)
                 new_ema == RatClamp(EmaStep(gap_minutes, seeded), min_f, max_f)
             IN  [star_count |-> star_count, ema |-> Some(new_ema),
                  interval_minutes |-> RatRound(new_ema)]

RECURSIVE Walk(_, _, _, _, _, _)
Walk(st, gaps, avg, fallback_default, min_f, max_f) ==
    IF gaps = << >> THEN st
    ELSE Walk(WalkStep(st, Head(gaps), avg, fallback_default, min_f, max_f),
              Tail(gaps), avg, fallback_default, min_f, max_f)

\* Mutant of recompute_interval: the previous cadence is kept as it is
recompute_interval_keeps_previous(star_rows, user_id, min_interval, max_interval, default_interval, previous_interval, previous_star_count, previous_ema, new_star_count, gaps) ==
    LET min_clamped == Max2(min_interval, 1)
        max_clamped == Max2(max_interval, min_clamped)
        interval_minutes == Clamp(previous_interval, min_clamped, max_clamped)
    IN  [interval_minutes |-> interval_minutes,
         activity_tier |-> Some(derive_activity_tier(interval_minutes)),
         ema_minutes |-> previous_ema]

\* Mutant of recompute_interval: the EMA is bootstrapped but the interval is
\* the default one
recompute_interval_ignoring_ema(star_rows, user_id, min_interval, max_interval, default_interval, previous_interval, previous_star_count, previous_ema, new_star_count, gaps) ==
    LET min_clamped == Max2(min_interval, 1)
        max_clamped == Max2(max_interval, min_clamped)
        interval_minutes == Clamp(default_interval, min_clamped, max_clamped)
        avg == compute_average_gap_minutes(star_rows, user_id)
    IN  [interval_minutes |-> interval_minutes,
         activity_tier |-> Some(derive_activity_tier(interval_minutes)),
         ema_minutes |-> IF new_star_count >= 3 /\ IsSome(avg)
                         THEN Some(RatClamp(Unwrap(avg), RatOfInt(min_clamped), RatOfInt(max_clamped)))
                         ELSE None]

\* recompute_interval: the ActivityProfile for the given previous state
recompute_interval(star_rows, user_id, min_interval, max_interval, default_interval, previous_interval, previous_star_count, previous_ema, new_star_count, gaps) ==
    LET min_clamped == Max2(min_interval, 1)
        max_clamped == Max2(max_interval, min_clamped)
        fallback_default == Clamp(default_interval, min_clamped, max_clamped)
        fallback_zero == max_clamped
        min_f == RatOfInt(min_clamped)
        max_f == RatOfInt(max_clamped)
        avg == compute_average_gap_minutes(star_rows, user_id)
        walked == Walk([star_count |-> previous_star_count, ema |-> previous_ema,
                        interval_minutes |-> Clamp(previous_interval, min_clamped, max_clamped)],
                       gaps, avg, fallback_default, min_f, max_f)
        final == IF new_star_count = 0
                     THEN [ema |-> None, interval_minutes |-> fallback_zero]
                 ELSE IF new_star_count < 3
                     THEN [ema |-> None, interval_minutes |-> fallback_default]
                 ELSE IF gaps = << >>
                     THEN IF IsSome(walked.ema)
                              THEN [ema |-> walked.ema,
                                    interval_minutes |-> RatRound(Unwrap(walked.ema))]
                          ELSE IF IsSome(avg)
                              THEN LET clamped == RatClamp(Unwrap(avg), min_f, max_f)
                                   IN  [ema |-> Some(clamped),
                                        interval_minutes |-> RatRound(clamped)]
                          ELSE [ema |-> None, interval_minutes |-> fallback_default]
                 ELSE [ema |-> walked.ema, interval_minutes |-> walked.interval_minutes]
        interval_minutes == Clamp(final.interval_minutes, min_clamped, max_clamped)
    IN  [interval_minutes |-> interval_minutes,
         activity_tier |-> Some(derive_activity_tier(interval_minutes)),
         ema_minutes |-> final.ema]

\* The jitter range of next_check_with_jitter: rng.gen_range(-cap ..= cap)
\* with cap = clamp(ceil(0.1 * interval), 1, 30)
JitterCap(interval_minutes) == Clamp((interval_minutes + 9) \div 10, 1, 30)

JitterChoices(interval_minutes) ==
    IF interval_minutes <= 0 THEN {0}
    ELSE (-JitterCap(interval_minutes)) .. JitterCap(interval_minutes)

\* Mutant of next_check_with_jitter: the sum is not floored at one minute
next_check_with_jitter_unfloored(base, interval_minutes, jitter) ==
    IF interval_minutes <= 0 THEN base + Minutes(1)
    ELSE base + Minutes(interval_minutes + jitter)

\* next_check_with_jitter for the drawn jitter
next_check_with_jitter(base, interval_minutes, jitter) ==
    IF interval_minutes <= 0 THEN base + Minutes(1)
    ELSE base + Minutes(Max2(interval_minutes + jitter, 1))

----------------------------------------------------------------------------
\* Store (db.rs).  A users row is a record of the columns below, keyed by
\* user_id; a stars row keeps the columns of its UNIQUE key and fetched_at.

\* Mutant of NewUserRow: the first check is one interval after the insertion
NewUserRowDueLater(login, initial_interval_minutes, at) ==
    [login |-> login, last_starred_at |-> None, last_fetched_at |-> None,
     etag |-> None, last_modified |-> None,
     fetch_interval_minutes |-> initial_interval_minutes,
     next_check_at |-> at + Minutes(initial_interval_minutes),
     activity_tier |-> Some("low"), ema_minutes |-> None, star_count |-> 0]

\* The row upsert_followings inserts for an unknown user_id
NewUserRow(login, initial_interval_minutes, at) ==
    [login |-> login, last_starred_at |-> None, last_fetched_at |-> None,
     etag |-> None, last_modified |-> None,
     fetch_interval_minutes |-> initial_interval_minutes, next_check_at |-> at,
     activity_tier |-> Some("low"), ema_minutes |-> None, star_count |-> 0]

\* UserRecord: a row as due_users returns it
UserRecord(us, user_id) ==
    [user_id |-> user_id, login |-> us[user_id].login,
     last_starred_at |-> us[user_id].last_starred_at,
     last_fetched_at |-> us[user_id].last_fetched_at,
     etag |-> us[user_id].etag, last_modified |-> us[user_id].last_modified,
     fetch_interval_minutes |-> us[user_id].fetch_interval_minutes,
     next_check_at |-> us[user_id].next_check_at,
     activity_tier |-> us[user_id].activity_tier,
     ema_minutes |-> us[user_id].ema_minutes, star_count |-> us[user_id].star_count]

\* Mutant of UpsertOne: INSERT OR REPLACE, which rewrites the whole row
UpsertOneReplacing(res, following, initial_interval_minutes, at) ==
    LET us == res.users
        taken == \E o \in DOMAIN us : o # following.id /\ us[o].login = following.login
    IN  IF ~res.ok \/ taken THEN [ok |-> FALSE, users |-> us]
        ELSE [ok |-> TRUE,
              users |-> [o \in DOMAIN us \cup {following.id} |->
                            IF o = following.id
                            THEN NewUserRow(following.login, initial_interval_minutes, at)
                            ELSE us[o]]]

\* One statement of upsert_followings: INSERT ... ON CONFLICT(user_id) DO
\* UPDATE SET login.  login is UNIQUE: a login held by another row fails the
\* statement.
UpsertOne(res, following, initial_interval_minutes, at) ==
    LET us == res.users
        taken == \E o \in DOMAIN us : o # following.id /\ us[o].login = following.login
    IN  IF ~res.ok \/ taken THEN [ok |-> FALSE, users |-> us]
        ELSE IF following.id \in DOMAIN us
            THEN [ok |-> TRUE, users |-> [us EXCEPT ![following.id].login = following.login]]
        ELSE [ok |-> TRUE,
              users |-> [o \in DOMAIN us \cup {following.id} |->
                            IF o = following.id
                            THEN NewUserRow(following.login, initial_interval_minutes, at)
                            ELSE us[o]]]

RECURSIVE UpsertAll(_, _, _, _)
UpsertAll(res, followings, initial_interval_minutes, at) ==
    IF followings = << >> THEN res
    ELSE UpsertAll(UpsertOne(res, Head(followings), initial_interval_minutes, at),
                   Tail(followings), initial_interval_minutes, at)

\* upsert_followings: one transaction; a failed statement rolls all of it back
upsert_followings(us, followings, initial_interval_minutes, at) ==
    LET res == UpsertAll([ok |-> TRUE, users |-> us], followings, initial_interval_minutes, at)
    IN  IF res.ok THEN res ELSE [ok |-> FALSE, users |-> us]

\* due_users: WHERE next_check_at <= now ORDER BY next_check_at ASC (rows
\* with equal next_check_at come in rowid order)
RECURSIVE DueOrder(_, _)
DueOrder(us, ids) ==
    IF ids = {} THEN << >>
    ELSE LET first == CHOOSE u \in ids : \A o \in ids :
                          \/ us[u].next_check_at < us[o].next_check_at
                          \/ us[u].next_check_at = us[o].next_check_at /\ u <= o
         IN  << UserRecord(us, first) >> \o DueOrder(us, ids \ {first})

due_users(us, at) == DueOrder(us, {u \in DOMAIN us : us[u].next_check_at <= at})

\* Mutant of record_not_modified: the UPDATE also resets the cache validators
record_not_modified_clears_validators(us, user_id, fetched_at, interval_minutes, jitter) ==
    IF user_id \notin DOMAIN us THEN us
    ELSE [us EXCEPT ![user_id].last_fetched_at = Some(fetched_at),
                    ![user_id].etag = None,
                    ![user_id].last_modified = None,
                    ![user_id].next_check_at =
                        next_check_with_jitter(fetched_at, interval_minutes, jitter)]

\* record_not_modified: UPDATE users SET last_fetched_at, next_check_at
record_not_modified(us, user_id, fetched_at, interval_minutes, jitter) ==
    IF user_id \notin DOMAIN us THEN us
    ELSE [us EXCEPT ![user_id].last_fetched_at = Some(fetched_at),
                    ![user_id].next_check_at =
                        next_check_with_jitter(fetched_at, interval_minutes, jitter)]

\* Mutant of defer_user: the interval is seeded from the wait every time
defer_user_always_seeds(us, user_id, wait, at) ==
    IF user_id \notin DOMAIN us THEN us
    ELSE [us EXCEPT ![user_id].next_check_at = at + wait,
                    ![user_id].last_fetched_at = Some(at),
                    ![user_id].fetch_interval_minutes = Max2(NumMinutes(wait), 1)]

\* Mutant of defer_user: next_check_at is set to the moment of the call
defer_user_without_wait(us, user_id, wait, at) ==
    IF user_id \notin DOMAIN us THEN us
    ELSE [us EXCEPT ![user_id].next_check_at = at,
                    ![user_id].last_fetched_at = Some(at)]

\* defer_user: wait is a std Duration in seconds
defer_user(us, user_id, wait, at) ==
    IF user_id \notin DOMAIN us THEN us
    ELSE LET current_fetch_interval == us[user_id].fetch_interval_minutes
             deferred == [us EXCEPT ![user_id].next_check_at = at + wait,
                                    ![user_id].last_fetched_at = Some(at)]
         IN  IF current_fetch_interval = 0
             THEN [deferred EXCEPT ![user_id].fetch_interval_minutes =
                                       Max2(NumMinutes(wait), 1)]
             ELSE deferred

\* Mutant of InsertOrIgnore: a plain INSERT into a table without the UNIQUE key
InsertWithoutKey(star_rows, row) == star_rows \cup {row}

\* INSERT OR IGNORE INTO stars under UNIQUE(user_id, repo_full_name, starred_at)
InsertOrIgnore(star_rows, row) ==
    IF \E r \in star_rows : /\ r.user_id = row.user_id
                            /\ r.repo_full_name = row.repo_full_name
                            /\ r.starred_at = row.starred_at
    THEN star_rows
    ELSE star_rows \cup {row}

RECURSIVE InsertAll(_, _, _, _)
InsertAll(star_rows, events, user_id, fetched_at) ==
    IF events = << >> THEN star_rows
    ELSE InsertAll(InsertOrIgnore(star_rows,
                       [user_id |-> user_id, repo_full_name |-> Head(events).repo_full_name,
                        starred_at |-> Head(events).starred_at, fetched_at |-> fetched_at]),
                   Tail(events), user_id, fetched_at)

MaxStarredAt(events) ==
    CHOOSE m \in {e.starred_at : e \in events} : \A e \in events : e.starred_at <= m

\* Mutant of AdvanceLastStarred: the UPDATE without its WHERE guard
OverwriteLastStarred(current, max_starred) == Some(max_starred)

\* UPDATE users SET last_starred_at = ?1 WHERE last_starred_at IS NULL OR
\* last_starred_at < ?1.  The column holds to_rfc3339() text of UTC times,
\* whose text order is the order of the times.
AdvanceLastStarred(current, max_starred) ==
    IF current = None \/ Unwrap(current) < max_starred THEN Some(max_starred) ELSE current

\* The first transaction of insert_star_events (events not empty): the star
\* rows, last_starred_at if it advances, the validators present, last_fetched_at
InsertEventsTx(us, star_rows, user_id, events, fetched_at, etag, last_modified) ==
    LET new_rows == InsertAll(star_rows, SortedByStarredAt(events), user_id, fetched_at)
        max_starred == MaxStarredAt(events)
        row == us[user_id]
        row2 == [row EXCEPT
                    !.last_starred_at = AdvanceLastStarred(row.last_starred_at, max_starred),
                    !.etag = IF IsSome(etag) THEN etag ELSE @,
                    !.last_modified = IF IsSome(last_modified) THEN last_modified ELSE @,
                    !.last_fetched_at = Some(fetched_at)]
    IN  [users |-> IF user_id \in DOMAIN us THEN [us EXCEPT ![user_id] = row2] ELSE us,
         stars |-> new_rows,
         inserted |-> Cardinality(new_rows) - Cardinality(star_rows)]

\* update_after_events: recompute_interval, then the UPDATE of the cadence
\* columns, then last_starred_at = COALESCE(last_starred_at, cached)
update_after_events(us, star_rows, user, cached_last_starred, fetched_at, etag, last_modified, cfg, inserted_count, gaps, jitter) ==
    LET new_star_count == user.star_count + inserted_count
        activity == recompute_interval(star_rows, user.user_id,
                        cfg.min_interval_minutes, cfg.max_interval_minutes,
                        cfg.default_interval_minutes, user.fetch_interval_minutes,
                        user.star_count, user.ema_minutes, new_star_count, gaps)
        row == us[user.user_id]
        row2 == [row EXCEPT
                    !.next_check_at =
                        next_check_with_jitter(fetched_at, activity.interval_minutes, jitter),
                    !.fetch_interval_minutes = activity.interval_minutes,
                    !.last_fetched_at = Some(fetched_at),
                    !.etag = IF IsSome(etag) THEN etag ELSE @,
                    !.last_modified = IF IsSome(last_modified) THEN last_modified ELSE @,
                    !.activity_tier = activity.activity_tier,
                    !.ema_minutes = activity.ema_minutes,
                    !.star_count = new_star_count,
                    !.last_starred_at =
                        IF IsSome(cached_last_starred) /\ row.last_starred_at = None
                        THEN cached_last_starred ELSE @]
    IN  [users |-> IF user.user_id \in DOMAIN us THEN [us EXCEPT ![user.user_id] = row2] ELSE us,
         interval_minutes |-> activity.interval_minutes]

----------------------------------------------------------------------------
\* What the forge may answer.

\* seconds the clock advances in one step
ClockStep == 660

\* StarEvent: the columns of the UNIQUE key
EventUniverse ==
    { [repo_full_name |-> "r1", starred_at |-> 0],
      [repo_full_name |-> "r2", starred_at |-> 30],
      [repo_full_name |-> "r1", starred_at |-> 600] }

\* batches handed to insert_star_events: the stars given up to some moment
EventBatches == { {e \in EventUniverse : e.starred_at <= upto} : upto \in {-1, 0, 30, 600} }

\* (ETag, Last-Modified) of a 200 response
ValidatorChoices == { <<None, None>>, <<Some("e1"), Some("m1")>> }

\* Retry-After of a 403 response, in seconds
RetryAfters == {0, 90}

\* lists of FollowingUser the forge may return
FollowingLists ==
    { << >>,
      << [id |-> 1, login |-> "a"] >>,
      << [id |-> 1, login |-> "a"], [id |-> NumUsers, login |-> "b"] >>,
      << [id |-> NumUsers, login |-> "a"] >>,
      << [id |-> NumUsers, login |-> "b"] >> }

\* validated Config records (min > 0, max >= min)
StoreConfigs ==
    { [min_interval_minutes |-> 2, max_interval_minutes |-> 10,
       default_interval_minutes |-> 4, max_concurrency |-> 1] }

----------------------------------------------------------------------------
\* process_user (pipeline.rs), one step per await point.

\* positions of a task inside a call of the store
StorePcs == {"store_nm", "store_defer", "store_tx1", "store_update"}

\* a task is named by the cycle that spawned it and the user it polls; cycle
\* 0 is a direct call of the store
TaskIds == (0 .. MaxCycles) \X UserIds

\* The locals of one process_user invocation.  `permit` tells whether the
\* closure owns an OwnedSemaphorePermit, `detached` whether the JoinHandle of
\* the task has been dropped.
NewTask(pc, user, cycle) ==
    [pc |-> pc, user |-> user, cycle |-> cycle, fetched_at |-> 0, events |-> {},
     etag |-> None, last_modified |-> None, wait |-> 0, inserted |-> 0,
     gaps |-> << >>, result |-> "none", permit |-> FALSE, detached |-> FALSE]

Spawn(t, task) == [x \in DOMAIN tasks \cup {t} |-> IF x = t THEN task ELSE tasks[x]]

Live(t) == t \in DOMAIN tasks /\ tasks[t].pc # "done"

\* process_user returns `result` and the spawned closure drops its permit:
\* the locals are gone, the output stays for the JoinHandle
Finished(task, result) ==
    [pc |-> "done", cycle |-> task.cycle, result |-> result, permit |-> FALSE,
     detached |-> task.detached]

\* The task table after t has returned: the output waits for the JoinHandle,
\* or is dropped by the runtime if the handle is gone
Complete(t, result) ==
    IF tasks[t].detached
    THEN [x \in DOMAIN tasks \ {t} |-> tasks[x]]
    ELSE [tasks EXCEPT ![t] = Finished(@, result)]

\* Mutant of ReleasePermit: the permit is forgotten instead of dropped
LeakPermit(s, task) == s

\* drop(permit): the permit goes back to the Semaphore of the task's cycle.
\* The Semaphore is shared through an Arc by poll_once and the permits; it is
\* freed when poll_once has returned and the last permit is dropped.
ReleasePermit(s, task) ==
    IF task.permit
    THEN LET released == [c \in DOMAIN s.permits |->
                             IF c = task.cycle THEN s.permits[c] + 1 ELSE s.permits[c]]
             freed == {c \in DOMAIN released :
                          /\ c = task.cycle
                          /\ s.pc \in {"idle", "exited"} \/ c # s.cycle
                          /\ \A t \in DOMAIN tasks :
                                 (tasks[t].cycle = c /\ tasks[t].permit) => tasks[t] = task}
         IN  [s EXCEPT !.permits = [c \in DOMAIN released \ freed |-> released[c]]]
    ELSE s

\* record_not_modified(db_path, user.user_id, fetched_at, user.fetch_interval_minutes)
StoreNotModified(t) ==
    /\ Live(t) /\ tasks[t].pc = "store_nm"
    /\ \E jitter \in JitterChoices(tasks[t].user.fetch_interval_minutes) :
           users' = record_not_modified(users, tasks[t].user.user_id, tasks[t].fetched_at,
                                        tasks[t].user.fetch_interval_minutes, jitter)
    /\ tasks' = Complete(t, "ok")
    /\ sched' = ReleasePermit(sched, tasks[t])
    /\ ghost' = [ghost EXCEPT !.last[tasks[t].user.user_id] = "not_modified",
                              !.wait[tasks[t].user.user_id] = 0]
    /\ UNCHANGED <<config, now, stars>>

\* defer_user(db_path, user.user_id, wait), then tokio::time::sleep(wait)
StoreDefer(t) ==
    /\ Live(t) /\ tasks[t].pc = "store_defer"
    /\ users' = defer_user(users, tasks[t].user.user_id, tasks[t].wait, now)
    /\ tasks' = [tasks EXCEPT ![t].pc = "sleep", ![t].fetched_at = now]
    /\ ghost' = [ghost EXCEPT !.last[tasks[t].user.user_id] = "deferred",
                              !.wait[tasks[t].user.user_id] = tasks[t].wait]
    /\ UNCHANGED <<config, now, stars, sched>>

\* the sleep of the rate-limited branch elapses
WakeUp(t) ==
    /\ Live(t) /\ tasks[t].pc = "sleep"
    /\ now >= tasks[t].fetched_at + tasks[t].wait
    /\ tasks' = Complete(t, "ok")
    /\ sched' = ReleasePermit(sched, tasks[t])
    /\ UNCHANGED <<config, now, users, stars, ghost>>

\* insert_star_events with events: the first transaction commits, then the
\* gaps are computed from the caller's UserRecord
StoreInsertTx(t) ==
    /\ Live(t) /\ tasks[t].pc = "store_tx1"
    /\ LET res == InsertEventsTx(users, stars, tasks[t].user.user_id, tasks[t].events,
                                 tasks[t].fetched_at, tasks[t].etag, tasks[t].last_modified)
       IN  /\ users' = res.users
           /\ stars' = res.stars
           /\ tasks' = [tasks EXCEPT ![t].pc = "store_update",
                                     ![t].inserted = res.inserted,
                                     ![t].gaps = compute_gap_minutes(tasks[t].events,
                                                     tasks[t].user.last_starred_at)]
    /\ UNCHANGED <<config, now, sched, ghost>>

\* What insert_star_events returns, which process_user prints as "next fetch
\* in {} minutes": the caller's fetch_interval_minutes for an empty batch, the
\* value of update_after_events otherwise
insert_star_events_value(user, events, interval_minutes) ==
    IF events = {} THEN user.fetch_interval_minutes ELSE interval_minutes

\* The interval update_after_events will store, needed to draw the jitter
PendingInterval(t) ==
    update_after_events(users, stars, tasks[t].user, None, tasks[t].fetched_at, None, None,
                        config, tasks[t].inserted, tasks[t].gaps, 0).interval_minutes

\* update_after_events, called with cached_last_starred = user.last_starred_at
\* and no gaps when the batch is empty, and with None and the gaps otherwise
StoreUpdate(t) ==
    /\ Live(t) /\ tasks[t].pc = "store_update"
    /\ \E jitter \in JitterChoices(PendingInterval(t)) :
           users' = update_after_events(users, stars, tasks[t].user,
                        IF tasks[t].events = {} THEN tasks[t].user.last_starred_at ELSE None,
                        tasks[t].fetched_at, tasks[t].etag, tasks[t].last_modified,
                        config, tasks[t].inserted, tasks[t].gaps, jitter).users
    /\ tasks' = Complete(t, "ok")
    /\ sched' = ReleasePermit(sched, tasks[t])
    /\ ghost' = [ghost EXCEPT !.last[tasks[t].user.user_id] = "modified",
                              !.wait[tasks[t].user.user_id] = 0,
                              !.ingested[tasks[t].user.user_id] =
                                  IF tasks[t].cycle = 0 THEN Some(tasks[t].events) ELSE @,
                              !.printed[tasks[t].user.user_id] =
                                  Some(insert_star_events_value(tasks[t].user, tasks[t].events,
                                                                PendingInterval(t)))]
    /\ UNCHANGED <<config, now, stars>>

\* A store call fails (open, prepare, execute or commit returns Err): the `?`
\* propagates it and nothing of that call is written
StorageFails(t) ==
    /\ Live(t) /\ tasks[t].pc \in StorePcs
    /\ tasks' = Complete(t, "Store")
    /\ sched' = ReleasePermit(sched, tasks[t])
    /\ ghost' = [ghost EXCEPT !.ingested[tasks[t].user.user_id] = None]
    /\ UNCHANGED <<config, now, users, stars>>

\* Utc::now() moves on.  A store call is short against the step of the
\* clock: the clock does not move while a task is inside one.
Tick ==
    /\ \A t \in DOMAIN tasks : tasks[t].pc \notin StorePcs
    /\ now + ClockStep <= MaxTime
    /\ now' = now + ClockStep
    /\ UNCHANGED <<config, users, stars, tasks, sched, ghost>>

----------------------------------------------------------------------------
\* The store driven by one sequential caller.  Like process_user, the caller
\* passes the UserRecord it has just read from due_users; unlike fetch_starred
\* it may pass any batch of events.

\* poll_once is not running and has not run.  `result` is what the last call
\* of poll_once returned ("ok" or the error, as SchedulerState records it) and
\* `from` the position it returned from.
IdleSched ==
    [pc |-> "idle", cycle |-> 0, followings |-> << >>, wake_at |-> 0, due |-> << >>,
     handles |-> {}, permits |-> [c \in {} |-> 0], cycle_now |-> 0, result |-> "none",
     from |-> "none", held |-> FALSE]

InitGhost ==
    [calls |-> 0,
     given |-> [u \in UserIds |-> None],
     due |-> {},
     wait |-> [u \in UserIds |-> 0],
     last |-> [u \in UserIds |-> "none"],
     ingested |-> [u \in UserIds |-> None],
     repeated |-> [u \in UserIds |-> FALSE],
     renamed |-> FALSE,
     attempts |-> 0,
     fresh |-> {},
     printed |-> [u \in UserIds |-> None]]

InitStore ==
    /\ config \in StoreConfigs
    /\ now = 0
    /\ users = [u \in {} |-> 0]
    /\ stars = {}
    /\ tasks = [t \in {} |-> 0]
    /\ sched = IdleSched
    /\ ghost = InitGhost

\* upsert_followings(db_path, &followings, config.max_interval_minutes)
StoreUpsert ==
    /\ DOMAIN tasks = {}
    /\ \E followings \in FollowingLists :
           LET res == upsert_followings(users, followings, config.max_interval_minutes, now)
           IN  /\ res.ok
               /\ users' = res.users
               /\ users' # users
               /\ ghost' = [ghost EXCEPT !.renamed =
                      @ \/ \E u \in DOMAIN users :
                               users[u].star_count > 0 /\ res.users[u].login # users[u].login]
    /\ UNCHANGED <<config, now, stars, tasks, sched>>

\* what the caller of the store saw when it made its call for u
Given(u) ==
    Some([user |-> UserRecord(users, u),
          rows |-> Cardinality({r \in stars : r.user_id = u})])

CanCall(u) ==
    /\ DOMAIN tasks = {}
    /\ ghost.calls < MaxCalls
    /\ u \in DOMAIN users
    /\ users[u].next_check_at <= now

\* the caller got 304 for u
CallNotModified(u) ==
    /\ CanCall(u)
    /\ tasks' = Spawn(<<0, u>>, [NewTask("store_nm", UserRecord(users, u), 0)
                                    EXCEPT !.fetched_at = now])
    /\ ghost' = [ghost EXCEPT !.calls = @ + 1, !.given[u] = Given(u)]
    /\ UNCHANGED <<config, now, users, stars, sched>>

\* the caller got 403 with Retry-After for u
CallDefer(u) ==
    /\ CanCall(u)
    /\ \E wait \in RetryAfters :
           tasks' = Spawn(<<0, u>>, [NewTask("store_defer", UserRecord(users, u), 0)
                                        EXCEPT !.wait = wait])
    /\ ghost' = [ghost EXCEPT !.calls = @ + 1, !.given[u] = Given(u)]
    /\ UNCHANGED <<config, now, users, stars, sched>>

\* the caller got 200 with a batch of events for u
CallInsert(u) ==
    /\ CanCall(u)
    /\ \E events \in EventBatches, validators \in ValidatorChoices :
           /\ tasks' = Spawn(<<0, u>>,
                  [NewTask(IF events = {} THEN "store_update" ELSE "store_tx1",
                           UserRecord(users, u), 0)
                      EXCEPT !.fetched_at = now, !.events = events,
                             !.etag = validators[1], !.last_modified = validators[2]])
           /\ ghost' = [ghost EXCEPT !.calls = @ + 1, !.given[u] = Given(u),
                                     !.repeated[u] = (ghost.ingested[u] = Some(events))]
    /\ UNCHANGED <<config, now, users, stars, sched>>

\* the store call has returned to the caller
CallReturns ==
    /\ \E t \in DOMAIN tasks :
           /\ tasks[t].pc = "done"
           /\ tasks' = [x \in DOMAIN tasks \ {t} |-> tasks[x]]
    /\ ghost' = [ghost EXCEPT !.given = [u \in UserIds |-> None],
                              !.printed = [u \in UserIds |-> None]]
    /\ UNCHANGED <<config, now, users, stars, sched>>

NextStore ==
    \/ StoreUpsert
    \/ (\A t \in DOMAIN tasks : tasks[t].pc = "sleep") /\ Tick
    \/ \E u \in UserIds : CallNotModified(u)
    \/ \E u \in UserIds : CallDefer(u)
    \/ \E u \in UserIds : CallInsert(u)
    \/ \E t \in TaskIds : StoreNotModified(t)
    \/ \E t \in TaskIds : StoreDefer(t)
    \/ \E t \in TaskIds : WakeUp(t)
    \/ \E t \in TaskIds : StoreInsertTx(t)
    \/ \E t \in TaskIds : StoreUpdate(t)
    \/ \E t \in TaskIds : StorageFails(t)
    \/ CallReturns

SpecStore == InitStore /\ [][NextStore]_vars

----------------------------------------------------------------------------
\* The poller: run_server runs poll_once once, then once per tick of the
\* refresh interval.  The ticker is not timed here: a tick may come whenever
\* the poller waits for one.

\* validated Config records of the poller specification
PollerConfigs ==
    { [min_interval_minutes |-> 1, max_interval_minutes |-> 1,
       default_interval_minutes |-> 1, max_concurrency |-> 1] }

\* lists of FollowingUser the forge may return to the poller
PolledFollowings ==
    { << [id |-> 1, login |-> "a"] >>,
      << [id |-> 1, login |-> "a"], [id |-> NumUsers, login |-> "b"] >> }

\* the stars the forge may list to the poller
PolledEvents == { [repo_full_name |-> "r1", starred_at |-> 0] }

\* Retry-After of a 403 response to the poller, in seconds
PolledRetryAfters == {90}

\* Retry-After of a 403 response to fetch_followings, in seconds
FollowingsRetryAfters == {0, 90}

\* (ETag, Last-Modified) of a 200 response to the poller
PolledValidators == { <<Some("e1"), Some("m1")>> }

\* fetch_starred keeps the events newer than known_latest
FetchedBatches(known_latest) ==
    { b \in SUBSET PolledEvents :
        \A e \in b : known_latest = None \/ e.starred_at > Unwrap(known_latest) }

Init ==
    /\ config \in PollerConfigs
    /\ now = 0
    /\ users = [u \in {} |-> 0]
    /\ stars = {}
    /\ tasks = [t \in {} |-> 0]
    /\ sched = IdleSched
    /\ ghost = InitGhost

\* Mutant of TaskFailed: the result of a task is not looked at
TaskNeverFailed(task) == FALSE

\* match result { Ok(Ok(())) => {}, Ok(Err(err)) => return Err(err), .. }
TaskFailed(task) == task.result # "ok"

\* The task table when poll_once returns: the FuturesUnordered and its
\* JoinHandles are dropped, which detaches the tasks still running and
\* discards the outputs of the finished ones
DropHandles(ts) ==
    [x \in {y \in DOMAIN ts : ts[y].pc # "done"} |-> [ts[x] EXCEPT !.detached = TRUE]]

\* the poller's locals after poll_once has returned `result`: its Arc of the
\* Semaphore is dropped, which frees a Semaphore no task holds a permit of; the
\* exit of the process takes everything with it
Returned(s, result) ==
    [s EXCEPT !.pc = IF result # "ok" /\ s.cycle = 1 THEN "exited" ELSE "idle",
              !.result = result, !.from = s.pc, !.followings = << >>, !.due = << >>,
              !.handles = {}, !.wake_at = 0,
              !.permits =
                  IF result # "ok" /\ s.cycle = 1 THEN [c \in {} |-> 0]
                  ELSE [c \in {x \in DOMAIN s.permits :
                                  \E t \in DOMAIN tasks :
                                      tasks[t].cycle = x /\ tasks[t].permit} |-> s.permits[c]]]

\* poll_once returns `result`; an error of the first cycle is returned by
\* run_server (or run_once) and ends the process with all its tasks
Return(result) ==
    /\ sched' = Returned(sched, result)
    /\ tasks' = IF sched'.pc = "exited" THEN [t \in {} |-> 0] ELSE DropHandles(tasks)

\* run_server before the loop, or interval.tick() in the loop: poll_once is called
StartCycle ==
    /\ sched.pc = "idle"
    /\ sched.cycle < MaxCycles
    /\ sched' = [sched EXCEPT !.pc = "followings", !.cycle = @ + 1, !.result = "none",
                               !.from = "none", !.cycle_now = 0]
    /\ ghost' = [ghost EXCEPT !.due = {},
                              !.last = [u \in UserIds |-> "none"],
                              !.wait = [u \in UserIds |-> 0],
                              !.attempts = 1,
                              !.fresh = {},
                              !.printed = [u \in UserIds |-> None]]
    /\ UNCHANGED <<config, now, users, stars, tasks>>

\* fetch_followings returns Ok(users)
FollowingsOk ==
    /\ sched.pc = "followings"
    /\ \E followings \in PolledFollowings :
           sched' = [sched EXCEPT !.pc = "upsert", !.followings = followings]
    /\ ghost' = [ghost EXCEPT !.attempts = 0]
    /\ UNCHANGED <<config, now, users, stars, tasks>>

\* fetch_followings returns Err(RateLimited(wait)): sleep, then loop
FollowingsRateLimited ==
    /\ sched.pc = "followings"
    /\ ghost.attempts < MaxAttempts
    /\ \E wait \in FollowingsRetryAfters :
           sched' = [sched EXCEPT !.pc = "followings_sleep", !.wake_at = now + wait]
    /\ UNCHANGED <<config, now, users, stars, tasks, ghost>>

\* the sleep of fetch_followings_with_retry elapses
FollowingsWake ==
    /\ sched.pc = "followings_sleep"
    /\ now >= sched.wake_at
    /\ sched' = [sched EXCEPT !.pc = "followings", !.wake_at = 0]
    /\ ghost' = [ghost EXCEPT !.attempts = @ + 1]
    /\ UNCHANGED <<config, now, users, stars, tasks>>

\* fetch_followings returns Err(Auth), Err(Forbidden) or Err(Other)
FollowingsFail ==
    /\ sched.pc = "followings"
    /\ \E kind \in {"Auth", "Forbidden", "Other"} : Return(kind)
    /\ ghost' = [ghost EXCEPT !.attempts = 0]
    /\ UNCHANGED <<config, now, users, stars>>

\* upsert_followings(..).await?
Upsert ==
    /\ sched.pc = "upsert"
    /\ LET res == upsert_followings(users, sched.followings, config.max_interval_minutes, now)
       IN  \/ /\ res.ok
              /\ users' = res.users
              /\ sched' = [sched EXCEPT !.pc = "due", !.followings = << >>]
              /\ ghost' = [ghost EXCEPT !.fresh = DOMAIN res.users \ DOMAIN users]
              /\ UNCHANGED tasks
           \/ /\ users' = users
              /\ Return("Store")
              /\ UNCHANGED ghost
    /\ UNCHANGED <<config, now, stars>>

\* due_users(.., Utc::now()).await?, the empty return, Semaphore::new
DueUsers ==
    /\ sched.pc = "due"
    /\ LET due == due_users(users, now)
       IN  \/ /\ due = << >>
              /\ Return("ok")
              /\ UNCHANGED ghost
           \/ /\ due # << >>
              /\ sched' = [sched EXCEPT
                     !.pc = "spawning", !.due = due, !.cycle_now = now,
                     !.permits = [c \in DOMAIN sched.permits \cup {sched.cycle} |->
                                     IF c = sched.cycle THEN config.max_concurrency
                                     ELSE sched.permits[c]]]
              /\ ghost' = [ghost EXCEPT
                     !.due = {due[i].user_id : i \in 1 .. Len(due)},
                     !.last = [u \in UserIds |-> "none"],
                     !.wait = [u \in UserIds |-> 0]]
              /\ UNCHANGED tasks
           \/ /\ UNCHANGED ghost
              /\ Return("Store")
    /\ UNCHANGED <<config, now, users, stars>>

\* the spawn loop of poll_once: semaphore.clone().acquire_owned().await
\* completes and the OwnedSemaphorePermit is a local of poll_once
AcquirePermit ==
    /\ sched.pc = "spawning"
    /\ ~sched.held
    /\ sched.permits[sched.cycle] > 0
    /\ sched' = [sched EXCEPT !.held = TRUE, !.permits[sched.cycle] = @ - 1]
    /\ UNCHANGED <<config, now, users, stars, tasks, ghost>>

\* the rest of the turn: tokio::spawn of the closure the permit is moved into
SpawnNext ==
    /\ sched.pc = "spawning"
    /\ sched.held
    /\ LET user == Head(sched.due)
           t == <<sched.cycle, user.user_id>>
       IN  /\ tasks' = Spawn(t, [NewTask("fetch", user, sched.cycle) EXCEPT !.permit = TRUE])
           /\ sched' = [sched EXCEPT
                  !.pc = IF Tail(sched.due) = << >> THEN "awaiting" ELSE "spawning",
                  !.due = Tail(@),
                  !.handles = @ \cup {t},
                  !.held = FALSE]
    /\ UNCHANGED <<config, now, users, stars, ghost>>

\* one turn of `while let Some(result) = handles.next().await`, and the
\* return of poll_once when the set is empty or a task has failed
AwaitNext ==
    /\ sched.pc = "awaiting"
    /\ \E t \in sched.handles :
           /\ tasks[t].pc = "done"
           /\ IF TaskFailed(tasks[t])
              THEN Return(tasks[t].result)
              ELSE IF sched.handles = {t}
                   THEN Return("ok")
                   ELSE /\ sched' = [sched EXCEPT !.handles = @ \ {t}]
                        /\ tasks' = [x \in DOMAIN tasks \ {t} |-> tasks[x]]
    /\ UNCHANGED <<config, now, users, stars, ghost>>

\* fetch_starred answers 304
FetchNotModified(t) ==
    /\ Live(t) /\ tasks[t].pc = "fetch"
    /\ tasks' = [tasks EXCEPT ![t].pc = "store_nm", ![t].fetched_at = now]
    /\ UNCHANGED <<config, now, users, stars, sched, ghost>>

\* fetch_starred answers 200 with the events newer than known_latest
FetchModified(t) ==
    /\ Live(t) /\ tasks[t].pc = "fetch"
    /\ \E events \in FetchedBatches(tasks[t].user.last_starred_at),
          validators \in PolledValidators :
           tasks' = [tasks EXCEPT
               ![t].pc = IF events = {} THEN "store_update" ELSE "store_tx1",
               ![t].fetched_at = now, ![t].events = events,
               ![t].etag = validators[1], ![t].last_modified = validators[2]]
    /\ UNCHANGED <<config, now, users, stars, sched, ghost>>

\* fetch_starred answers 403 with Retry-After
FetchRateLimited(t) ==
    /\ Live(t) /\ tasks[t].pc = "fetch"
    /\ \E wait \in PolledRetryAfters :
           tasks' = [tasks EXCEPT ![t].pc = "store_defer", ![t].wait = wait]
    /\ UNCHANGED <<config, now, users, stars, sched, ghost>>

\* fetch_starred returns Err(Auth), Err(Forbidden) or Err(Other)
FetchFails(t) ==
    /\ Live(t) /\ tasks[t].pc = "fetch"
    /\ \E kind \in {"Auth", "Forbidden", "Other"} : tasks' = Complete(t, kind)
    /\ sched' = ReleasePermit(sched, tasks[t])
    /\ UNCHANGED <<config, now, users, stars, ghost>>

Next ==
    \/ StartCycle
    \/ FollowingsOk
    \/ FollowingsRateLimited
    \/ FollowingsWake
    \/ FollowingsFail
    \/ Upsert
    \/ DueUsers
    \/ AcquirePermit
    \/ SpawnNext
    \/ AwaitNext
    \/ sched.pc \notin {"upsert", "due", "exited"} /\ Tick
    \/ \E t \in TaskIds : FetchNotModified(t)
    \/ \E t \in TaskIds : FetchModified(t)
    \/ \E t \in TaskIds : FetchRateLimited(t)
    \/ \E t \in TaskIds : FetchFails(t)
    \/ \E t \in TaskIds : StoreNotModified(t)
    \/ \E t \in TaskIds : StoreDefer(t)
    \/ \E t \in TaskIds : WakeUp(t)
    \/ \E t \in TaskIds : StoreInsertTx(t)
    \/ \E t \in TaskIds : StoreUpdate(t)
    \/ \E t \in TaskIds : StorageFails(t)

Spec == Init /\ [][Next]_vars

----------------------------------------------------------------------------
\* Termination of poll_once.  One call of the same poller, with the retry loop of
\* fetch_followings_with_retry as the code has it (no attempt is counted) and
\* with timers that always fire: the clock is read where a
\* tokio::time::sleep ends, and it reaches the earliest pending deadline.

\* fetch_followings returns Err(RateLimited(wait)) at any attempt
FollowingsRateLimitedAgain ==
    /\ sched.pc = "followings"
    /\ \E wait \in FollowingsRetryAfters :
           /\ now + wait <= MaxTime
           /\ sched' = [sched EXCEPT !.pc = "followings_sleep", !.wake_at = now + wait]
    /\ UNCHANGED <<config, now, users, stars, tasks, ghost>>

\* tokio::time::sleep(wait) of the retry loop elapses; the next turn of `loop`
FollowingsRetry ==
    /\ sched.pc = "followings_sleep"
    /\ now >= sched.wake_at
    /\ sched' = [sched EXCEPT !.pc = "followings", !.wake_at = 0]
    /\ ghost' = [ghost EXCEPT !.attempts = IF @ < MaxAttempts THEN @ + 1 ELSE @]
    /\ UNCHANGED <<config, now, users, stars, tasks>>

\* the deadlines of the sleeps that have not elapsed
PendingDeadlines ==
    {d \in {tasks[t].fetched_at + tasks[t].wait : t \in {x \in DOMAIN tasks : tasks[x].pc = "sleep"}}
              \cup (IF sched.pc = "followings_sleep" THEN {sched.wake_at} ELSE {}) : d > now}

\* the timer driver: time reaches the earliest pending deadline
TimerFires ==
    /\ PendingDeadlines # {}
    /\ \A t \in DOMAIN tasks : tasks[t].pc \notin StorePcs
    /\ now' = CHOOSE d \in PendingDeadlines : \A e \in PendingDeadlines : d <= e
    /\ UNCHANGED <<config, users, stars, tasks, sched, ghost>>

\* a step of poll_once itself
PollOnceStep ==
    \/ FollowingsOk
    \/ FollowingsRateLimitedAgain
    \/ FollowingsRetry
    \/ FollowingsFail
    \/ Upsert
    \/ DueUsers
    \/ AcquirePermit
    \/ SpawnNext
    \/ AwaitNext

\* a step of the spawned task t: process_user, then drop(permit)
TaskStep(t) ==
    \/ FetchNotModified(t)
    \/ FetchModified(t)
    \/ FetchRateLimited(t)
    \/ FetchFails(t)
    \/ StoreNotModified(t)
    \/ StoreDefer(t)
    \/ WakeUp(t)
    \/ StoreInsertTx(t)
    \/ StoreUpdate(t)
    \/ StorageFails(t)

\* poll_once is called, once
CallPollOnce == sched.cycle = 0 /\ StartCycle

NextTermination ==
    \/ CallPollOnce
    \/ PollOnceStep
    \/ TimerFires
    \/ \E t \in TaskIds : TaskStep(t)

\* The runtime polls every future that is ready (poll_once and each spawned
\* task), every request gets some answer, and every timer fires.
SpecTermination ==
    /\ Init
    /\ [][NextTermination]_vars
    /\ WF_vars(PollOnceStep)
    /\ WF_vars(TimerFires)
    /\ \A t \in TaskIds : WF_vars(TaskStep(t))

----------------------------------------------------------------------------
\* The CadenceEngine on its own: recompute_interval applied to any previous
\* cadence state, new star count and gaps, over any stored star rows.

\* validated Config records of the cadence specification; the default
\* interval is not validated and may lie outside [min, max]
CadenceConfigs ==
    { [min_interval_minutes |-> 10, max_interval_minutes |-> 10080,
       default_interval_minutes |-> 60, max_concurrency |-> 1],
      [min_interval_minutes |-> 2, max_interval_minutes |-> 10,
       default_interval_minutes |-> 4, max_concurrency |-> 1],
      [min_interval_minutes |-> 60, max_interval_minutes |-> 61,
       default_interval_minutes |-> 1, max_concurrency |-> 1],
      [min_interval_minutes |-> 1440, max_interval_minutes |-> 1441,
       default_interval_minutes |-> 5000, max_concurrency |-> 1] }

\* star rows of user 1 the average gap is taken over: none, or stars at T,
\* T + 1440 min and T + 1440 + 720 min
CadenceStarRows ==
    { {},
      { [user_id |-> 1, repo_full_name |-> "r1", starred_at |-> Minutes(m), fetched_at |-> 0] :
            m \in {0, 1440, 2160} } }

\* the arguments previous_interval, previous_star_count, previous_ema,
\* new_star_count and gaps of recompute_interval
CadenceInputs ==
    [previous_interval : {0, 60, 90, 20000},
     previous_star_count : 0 .. 3,
     previous_ema : {None, Some(RatOfInt(90)), Some(Rat(5, 2))},
     new_star_count : 0 .. 4,
     gaps : {<< >>, <<30>>, <<720>>, <<30, 2000>>}]

InitCadence ==
    /\ config \in CadenceConfigs
    /\ now = 0
    /\ users = [u \in {} |-> 0]
    /\ stars \in CadenceStarRows
    /\ tasks = [t \in {} |-> 0]
    /\ sched = IdleSched
    /\ ghost \in [input : CadenceInputs, profile : {None}]

\* recompute_interval(db_path, 1, min, max, default, previous_interval,
\* previous_star_count, previous_ema, new_star_count, gaps)
Recompute ==
    /\ ghost.profile = None
    /\ ghost' = [ghost EXCEPT !.profile =
                    Some(recompute_interval(stars, 1, config.min_interval_minutes,
                             config.max_interval_minutes, config.default_interval_minutes,
                             ghost.input.previous_interval, ghost.input.previous_star_count,
                             ghost.input.previous_ema, ghost.input.new_star_count,
                             ghost.input.gaps))]
    /\ UNCHANGED <<config, now, users, stars, tasks, sched>>

NextCadence == Recompute

SpecCadence == InitCadence /\ [][NextCadence]_vars

----------------------------------------------------------------------------
\* run_server (server.rs): the first poll_once, then the Poller task with its
\* ticker and the shutdown signal.  poll_once is seen here from outside, as a
\* call that is in flight and then returns Ok or an error.  `sched` holds
\* the locals of run_server and the SchedulerSnapshot.

\* seconds the clock of the server specification advances in one step
ServerClockStep == 60

\* validated serve options: refresh_minutes > 0
ServerConfigs ==
    { [min_interval_minutes |-> 1, max_interval_minutes |-> 1,
       default_interval_minutes |-> 1, max_concurrency |-> 1, refresh_minutes |-> r] :
          r \in {1, 2} }

\* what poll_once may return: Ok or the error
PollResults == {"ok", "Auth", "Forbidden", "Other", "Store"}

\* SchedulerSnapshot::default()
NewSnapshot == [last_poll_started |-> None, last_poll_finished |-> None, last_error |-> None]

\* SchedulerState::new: refresh_interval = minutes(max(refresh_minutes, 1)), in seconds
refresh_interval(refresh_minutes) == Minutes(Max2(refresh_minutes, 1))

\* SchedulerState::record_start
record_start(snapshot, at) == [snapshot EXCEPT !.last_poll_started = Some(at)]

\* Mutant of record_finish: an absent error leaves the stored one in place
record_finish_keeps_error(snapshot, finished, error) ==
    [snapshot EXCEPT !.last_poll_finished = Some(finished),
                     !.last_error = IF IsSome(error) THEN error ELSE @]

\* SchedulerState::record_finish
record_finish(snapshot, finished, error) ==
    [snapshot EXCEPT !.last_poll_finished = Some(finished), !.last_error = error]

\* Mutant of is_stale: the comparison is not strict
is_stale_at_twice(interval, at, snapshot) ==
    IF IsSome(snapshot.last_poll_finished)
    THEN at - Unwrap(snapshot.last_poll_finished) >= interval * 2
    ELSE FALSE

\* SchedulerState::is_stale
is_stale(interval, at, snapshot) ==
    IF IsSome(snapshot.last_poll_finished)
    THEN at - Unwrap(snapshot.last_poll_finished) > interval * 2
    ELSE FALSE

\* Err(err) => Some(err.to_string()), Ok => None
ErrorOf(result) == IF result = "ok" THEN None ELSE Some(result)

InitServer ==
    /\ config \in ServerConfigs
    /\ now = 0
    /\ users = [u \in {} |-> 0]
    /\ stars = {}
    /\ tasks = [t \in {} |-> 0]
    /\ sched = [pc |-> "init", snapshot |-> NewSnapshot, next_tick |-> 0,
                signalled |-> FALSE, cycles |-> 0]
    /\ ghost = [finished |-> None, previous |-> None, status |-> None]

\* scheduler.record_start(Utc::now()), then the first poll_once is called
ServeStart ==
    /\ sched.pc = "init"
    /\ sched' = [sched EXCEPT !.pc = "first_poll", !.cycles = 1,
                              !.snapshot = record_start(@, now)]
    /\ UNCHANGED <<config, now, users, stars, tasks, ghost>>

\* The first poll_once returns: record_finish, then either run_server returns
\* the error or the Poller is spawned; its interval starts now and its
\* immediate first tick is consumed
FirstPollReturns ==
    /\ sched.pc = "first_poll"
    /\ \E result \in PollResults :
           /\ sched' = [sched EXCEPT
                  !.pc = IF result = "ok" THEN "select" ELSE "exited",
                  !.snapshot = record_finish(@, now, ErrorOf(result)),
                  !.next_tick = IF result = "ok"
                                THEN now + Minutes(config.refresh_minutes) ELSE 0]
           /\ ghost' = [ghost EXCEPT !.finished = Some(result), !.previous = ghost.finished]
    /\ UNCHANGED <<config, now, users, stars, tasks>>

\* select!: interval.tick() completes; record_start, then poll_once is called.
\* A missed tick is delivered as soon as the Poller selects again.
TickerFires ==
    /\ sched.pc = "select"
    /\ now >= sched.next_tick
    /\ sched' = [sched EXCEPT !.pc = "polling", !.cycles = @ + 1,
                              !.snapshot = record_start(@, now),
                              !.next_tick = @ + Minutes(config.refresh_minutes)]
    /\ UNCHANGED <<config, now, users, stars, tasks, ghost>>

\* poll_once returns inside the loop: the error is logged, record_finish
PollReturns ==
    /\ sched.pc = "polling"
    /\ \E result \in PollResults :
           /\ sched' = [sched EXCEPT !.pc = "select",
                                     !.snapshot = record_finish(@, now, ErrorOf(result))]
           /\ ghost' = [ghost EXCEPT !.finished = Some(result), !.previous = ghost.finished]
    /\ UNCHANGED <<config, now, users, stars, tasks>>

\* ctrl_c completes and shutdown_future calls notify.notify_waiters(): this
\* wakes the Notified future of a Poller that waits in select!, which breaks
\* out of its loop.  A Poller inside poll_once has dropped that future, and
\* notify_waiters() stores no permit for a later notified().
ShutdownSignal ==
    /\ sched.pc \in {"select", "polling"}
    /\ ~sched.signalled
    /\ sched' = [sched EXCEPT !.signalled = TRUE,
                              !.pc = IF sched.pc = "select" THEN "stopped" ELSE @]
    /\ UNCHANGED <<config, now, users, stars, tasks, ghost>>

\* status_handler: the snapshot is read and is_stale computed from it and the
\* current time; the answer is kept with the values it was computed from
StatusRequest ==
    /\ sched.pc \in {"select", "polling"}
    /\ ghost' = [ghost EXCEPT !.status =
           Some([at |-> now, finished |-> sched.snapshot.last_poll_finished,
                 is_stale |-> is_stale(refresh_interval(config.refresh_minutes),
                                       now, sched.snapshot)])]
    /\ UNCHANGED <<config, now, users, stars, tasks, sched>>

\* Utc::now() and the tokio clock move on
ServerTick ==
    /\ sched.pc \notin {"exited", "stopped"}
    /\ now + ServerClockStep <= MaxServerTime
    /\ now' = now + ServerClockStep
    /\ UNCHANGED <<config, users, stars, tasks, sched, ghost>>

NextServer ==
    \/ ServeStart
    \/ FirstPollReturns
    \/ TickerFires
    \/ PollReturns
    \/ ShutdownSignal
    \/ StatusRequest
    \/ ServerTick

SpecServer == InitServer /\ [][NextServer]_vars

----------------------------------------------------------------------------
\* The forge client (github.rs): one response of the forge to a request of
\* fetch_followings or of fetch_starred, and what the client returns for it.
\* A header value is the sequence of its characters.

DecimalDigits == <<"0", "1", "2", "3", "4", "5", "6", "7", "8", "9">>

IsDigit(c) == \E i \in DOMAIN DecimalDigits : DecimalDigits[i] = c

DigitValue(c) == (CHOOSE i \in DOMAIN DecimalDigits : DecimalDigits[i] = c) - 1

RECURSIVE DecimalValue(_)
DecimalValue(cs) ==
    IF cs = << >> THEN 0
    ELSE DecimalValue(SubSeq(cs, 1, Len(cs) - 1)) * 10 + DigitValue(cs[Len(cs)])

\* str::parse::<u64>: an optional "+", then one or more decimal digits (the
\* headers drawn below stay far under u64::MAX)
parse_u64(cs) ==
    LET digits == IF cs # << >> /\ Head(cs) = "+" THEN Tail(cs) ELSE cs
    IN  IF digits # << >> /\ \A i \in DOMAIN digits : IsDigit(digits[i])
        THEN Some(DecimalValue(digits))
        ELSE None

\* parse_retry_after: the Retry-After header parsed as seconds
parse_retry_after(response) ==
    IF IsSome(response.retry_after) THEN parse_u64(Unwrap(response.retry_after)) ELSE None

\* Retry-After as the forge may send it: absent, delay-seconds, or an HTTP-date
HttpDate == <<"W", "e", "d", ",", " ", "2", "1", " ", "O", "c", "t", " ", "2", "0", "1", "5", " ", "0", "7", ":", "2", "8", ":", "0", "0", " ", "G", "M", "T">>
RetryAfterHeaders ==
    { None, Some(<<"0">>), Some(<<"6", "0">>), Some(<<"+", "6", "0">>),
      Some(<<"-", "1">>), Some(<<"6", "0", ".", "5">>), Some(HttpDate) }

\* What comes back for one request: no response at all (send() fails), or a
\* status with its Retry-After header and a body that deserializes or does not
ForgeResponses ==
    { [sent |-> FALSE, status |-> 0, retry_after |-> None, body_ok |-> FALSE] } \cup
    [sent : {TRUE}, status : {200, 304, 401, 403, 404, 500},
     retry_after : RetryAfterHeaders, body_ok : BOOLEAN]

ForgeOutcome(kind, wait) == [kind |-> kind, wait |-> wait]

\* GitHubClient::fetch_followings on a single page
fetch_followings(response) ==
    IF ~response.sent THEN ForgeOutcome("Other", 0)
    ELSE CASE response.status = 200 ->
                  IF response.body_ok THEN ForgeOutcome("Users", 0)
                  ELSE ForgeOutcome("Other", 0)
           [] response.status = 401 -> ForgeOutcome("Auth", 0)
           [] response.status = 403 ->
                  IF IsSome(parse_retry_after(response))
                  THEN ForgeOutcome("RateLimited", Unwrap(parse_retry_after(response)))
                  ELSE ForgeOutcome("Forbidden", 0)
           [] OTHER -> ForgeOutcome("Other", 0)

\* GitHubClient::fetch_starred on a single page
fetch_starred(response) ==
    IF ~response.sent THEN ForgeOutcome("Other", 0)
    ELSE CASE response.status = 200 ->
                  IF response.body_ok THEN ForgeOutcome("Modified", 0)
                  ELSE ForgeOutcome("Other", 0)
           [] response.status = 304 -> ForgeOutcome("NotModified", 0)
           [] response.status = 401 -> ForgeOutcome("Auth", 0)
           [] response.status = 403 ->
                  IF IsSome(parse_retry_after(response))
                  THEN ForgeOutcome("RateLimited", Unwrap(parse_retry_after(response)))
                  ELSE ForgeOutcome("Forbidden", 0)
           [] OTHER -> ForgeOutcome("Other", 0)

InitForge ==
    /\ config \in PollerConfigs
    /\ now = 0
    /\ users = [u \in {} |-> 0]
    /\ stars = {}
    /\ tasks = [t \in {} |-> 0]
    /\ \E response \in ForgeResponses :
           sched = [pc |-> "request", response |-> response, outcome |-> None]
    /\ ghost = << >>

\* the response answers a request of fetch_followings
FetchFollowings ==
    /\ sched.pc = "request"
    /\ sched' = [sched EXCEPT !.pc = "followings",
                              !.outcome = Some(fetch_followings(sched.response))]
    /\ UNCHANGED <<config, now, users, stars, tasks, ghost>>

\* the response answers a request of fetch_starred
FetchStarred ==
    /\ sched.pc = "request"
    /\ sched' = [sched EXCEPT !.pc = "starred",
                              !.outcome = Some(fetch_starred(sched.response))]
    /\ UNCHANGED <<config, now, users, stars, tasks, ghost>>

NextForge ==
    \/ FetchFollowings
    \/ FetchStarred

SpecForge == InitForge /\ [][NextForge]_vars

----------------------------------------------------------------------------
\* next_check_with_jitter applied to drawn intervals: the short ones whose
\* jittered sum reaches the floor, the ones around the cap of 30 minutes, and
\* the default maximum.

\* config.rs: the default of max_interval_minutes
DEFAULT_MAX_INTERVAL == 7 * 24 * 60

JitterIntervals == {0, 1, 2, 5, 10, 11, 30, 120, 290, 291, 300, DEFAULT_MAX_INTERVAL}

InitJitter ==
    /\ config \in PollerConfigs
    /\ now \in {0, MaxTime}
    /\ users = [u \in {} |-> 0]
    /\ stars = {}
    /\ tasks = [t \in {} |-> 0]
    /\ \E interval_minutes \in JitterIntervals :
           sched = [pc |-> "input", interval_minutes |-> interval_minutes,
                    next_check_at |-> None]
    /\ ghost = [jitter |-> 0]

\* next_check_with_jitter(base, interval_minutes) with base = now; the value
\* of rng.gen_range is kept beside the result
Schedule ==
    /\ sched.pc = "input"
    /\ \E jitter \in JitterChoices(sched.interval_minutes) :
           /\ sched' = [sched EXCEPT
                  !.pc = "scheduled",
                  !.next_check_at =
                      Some(next_check_with_jitter(now, sched.interval_minutes, jitter))]
           /\ ghost' = [jitter |-> jitter]
    /\ UNCHANGED <<config, now, users, stars, tasks>>

NextJitter == Schedule

SpecJitter == InitJitter /\ [][NextJitter]_vars

----------------------------------------------------------------------------
\* The paging loop of fetch_starred (github.rs): the forge lists the stars of
\* a user page by page, every response being 200.  PER_PAGE is scaled down.

PER_PAGE == 2

MaxListed == 4

\* starred_at of the listed stars, in the order the forge returns them
Listings == UNION { [1 .. n -> {0, 30, 600}] : n \in 0 .. MaxListed }

\* the body of page `page` of a listing: at most PER_PAGE items
PageOf(listing, page) ==
    SubSeq(listing, (page - 1) * PER_PAGE + 1,
           IF page * PER_PAGE < Len(listing) THEN page * PER_PAGE ELSE Len(listing))

\* Mutant of AlreadySeen: a star at known_latest itself counts as new
AlreadySeenBefore(starred_at, known_latest) ==
    IsSome(known_latest) /\ starred_at < Unwrap(known_latest)

\* item.starred_at <= latest
AlreadySeen(starred_at, known_latest) ==
    IsSome(known_latest) /\ starred_at <= Unwrap(known_latest)

\* the `for item in body` loop: the items before the first one already seen
RECURSIVE PageNewEvents(_, _)
PageNewEvents(body, known_latest) ==
    IF body = << >> \/ AlreadySeen(Head(body), known_latest) THEN << >>
    ELSE << Head(body) >> \o PageNewEvents(Tail(body), known_latest)

InitPaging ==
    /\ config \in PollerConfigs
    /\ now = 0
    /\ users = [u \in {} |-> 0]
    /\ stars = {}
    /\ tasks = [t \in {} |-> 0]
    /\ \E listing \in Listings, known_latest \in {None, Some(0), Some(30)} :
           sched = [pc |-> "paging", listing |-> listing, known_latest |-> known_latest,
                    page |-> 1, events |-> << >>]
    /\ ghost = << >>

\* one turn of `while continue_paging`: the page is requested and scanned; the
\* loop ends on an empty body, on an item already seen, or on a short page
FetchPage ==
    /\ sched.pc = "paging"
    /\ LET body == PageOf(sched.listing, sched.page)
           page_new_events == PageNewEvents(body, sched.known_latest)
           continue_paging == Len(page_new_events) = Len(body)
       IN  sched' = [sched EXCEPT
               !.events = @ \o page_new_events,
               !.pc = IF body = << >> \/ ~continue_paging
                         \/ Len(page_new_events) < PER_PAGE
                      THEN "returned" ELSE "paging",
               !.page = IF body = << >> \/ ~continue_paging
                           \/ Len(page_new_events) < PER_PAGE
                        THEN @ ELSE @ + 1]
    /\ UNCHANGED <<config, now, users, stars, tasks, ghost>>

NextPaging == FetchPage

SpecPaging == InitPaging /\ [][NextPaging]_vars

----------------------------------------------------------------------------
\* RateLimitState (github.rs): every response of the forge passes through
\* update, and the status surface reads the snapshot.  Both take the Mutex, so
\* each is one step.  Response k carries, if at all, the headers
\* x-ratelimit-remaining = 50 + k and x-ratelimit-reset = 100 + k.

MaxResponses == 3

\* str::parse::<u32> and str::parse::<i64>, on the header values drawn below
parse_u32(cs) == parse_u64(cs)

parse_i64(cs) ==
    IF cs # << >> /\ Head(cs) = "-"
    THEN LET v == parse_u64(Tail(cs))
         IN  IF IsSome(v) /\ Head(Tail(cs)) # "+" THEN Some(-Unwrap(v)) ELSE None
    ELSE parse_u64(cs)

\* the rate-limit headers response k may carry: absent, a number, or no number
RateLimitHeaders(k) ==
    [remaining : {None, Some(<<"5", DecimalDigits[k + 1]>>), Some(<<"n", "o">>)},
     reset : {None, Some(<<"1", "0", DecimalDigits[k + 1]>>), Some(<<"n", "o">>)}]

\* RateLimitSnapshot::default()
NewRateLimit == [remaining |-> None, reset_at |-> None]

\* RateLimitState::update under the lock
update(snapshot, headers) ==
    LET remaining == IF IsSome(headers.remaining)
                     THEN parse_u32(Unwrap(headers.remaining)) ELSE None
        reset == IF IsSome(headers.reset) THEN parse_i64(Unwrap(headers.reset)) ELSE None
    IN  [remaining |-> IF IsSome(remaining) THEN remaining ELSE snapshot.remaining,
         reset_at |-> IF IsSome(reset) THEN reset ELSE snapshot.reset_at]

InitRateLimit ==
    /\ config \in PollerConfigs
    /\ now = 0
    /\ users = [u \in {} |-> 0]
    /\ stars = {}
    /\ tasks = [t \in {} |-> 0]
    /\ sched = [rate_limit |-> NewRateLimit, responses |-> 0, status |-> None]
    /\ ghost = [headers |-> None]

\* a response arrives: self.rate_limit.update(response.headers())
ResponseArrives ==
    /\ sched.responses < MaxResponses
    /\ \E headers \in RateLimitHeaders(sched.responses + 1) :
           /\ sched' = [sched EXCEPT !.responses = @ + 1,
                                     !.rate_limit = update(@, headers)]
           /\ ghost' = [headers |-> Some(headers)]
    /\ UNCHANGED <<config, now, users, stars, tasks>>

\* status_handler: state.rate_limit_snapshot()
SnapshotRead ==
    /\ sched' = [sched EXCEPT !.status = Some(sched.rate_limit)]
    /\ UNCHANGED <<config, now, users, stars, tasks, ghost>>

NextRateLimit ==
    \/ ResponseArrives
    \/ SnapshotRead

SpecRateLimit == InitRateLimit /\ [][NextRateLimit]_vars

----------------------------------------------------------------------------
\* init (db.rs): schema creation and additive schema evolution.  A store file
\* written before the columns activity_tier and star_count existed gets them
\* from ensure_column with NULL in every row.

MaxInits == 2

\* NULL in the INTEGER column star_count; no count the program stores is
\* negative
NullCount == -1

\* users rows a store file may hold when init opens it, with
\* fetch_interval_minutes on both sides of the backfill thresholds
StoredUserRows(login) ==
    { [NewUserRow(login, interval_minutes, 0) EXCEPT !.activity_tier = tier, !.star_count = count] :
          interval_minutes \in {30, 60, 61, 24 * 60, 24 * 60 + 1},
          tier \in {None, Some("high"), Some("low")},
          count \in {NullCount, 0, 1, 3} }

\* stars rows a store file may hold when init opens it
StoredStarRows ==
    SUBSET { [user_id |-> u, repo_full_name |-> "r1", starred_at |-> Minutes(m), fetched_at |-> 0] :
                 u \in {1}, m \in {0, 30} }

\* Mutant of init: star_count is only filled in where it is NULL
init_keeps_star_count(us, star_rows) ==
    [u \in DOMAIN us |->
        [us[u] EXCEPT !.activity_tier = IF @ = None
                                        THEN Some(derive_activity_tier(us[u].fetch_interval_minutes))
                                        ELSE @,
                      !.star_count = IF @ = NullCount THEN 0 ELSE @]]

\* init(db_path): the five UPDATE statements, in order, on every users row
init(us, star_rows) ==
    LET high(row) == IF row.activity_tier = None /\ row.fetch_interval_minutes <= 60
                     THEN [row EXCEPT !.activity_tier = Some("high")] ELSE row
        medium(row) == IF /\ row.activity_tier = None
                          /\ row.fetch_interval_minutes > 60
                          /\ row.fetch_interval_minutes <= 1440
                       THEN [row EXCEPT !.activity_tier = Some("medium")] ELSE row
        low(row) == IF row.activity_tier = None /\ row.fetch_interval_minutes > 1440
                    THEN [row EXCEPT !.activity_tier = Some("low")] ELSE row
        zero(row) == IF row.star_count = NullCount THEN [row EXCEPT !.star_count = 0] ELSE row
        count(u, row) == [row EXCEPT !.star_count = Cardinality({r \in star_rows : r.user_id = u})]
    IN  [u \in DOMAIN us |-> count(u, zero(low(medium(high(us[u])))))]

InitInit ==
    /\ config \in StoreConfigs
    /\ now = 0
    /\ \E ids \in SUBSET UserIds :
           users \in [ids -> UNION {StoredUserRows(login) : login \in {"a"}}]
    /\ stars \in StoredStarRows
    /\ tasks = [t \in {} |-> 0]
    /\ sched = [inits |-> 0]
    /\ ghost = [absent |-> {}]

\* db::init(&config.db_path).await at start-up
RunInit ==
    /\ sched.inits < MaxInits
    /\ users' = init(users, stars)
    /\ sched' = [inits |-> sched.inits + 1]
    /\ ghost' = [absent |-> IF sched.inits = 0
                            THEN {u \in DOMAIN users : users[u].activity_tier = None}
                            ELSE ghost.absent]
    /\ UNCHANGED <<config, now, stars, tasks>>

SpecInit == InitInit /\ [][RunInit]_vars

----------------------------------------------------------------------------
\* Properties of the store.

StarRowsOf(u) == {r \in stars : r.user_id = u}

InStoreCall(t) == tasks[t].pc \in StorePcs

\* C4: after every commit, each user's star_count is the number of its star
\* rows, also between the commits of one insert_star_events call and after a
\* call that failed part-way.
C4_StarCountIsRowCount ==
    \A u \in DOMAIN users : users[u].star_count = Cardinality(StarRowsOf(u))

\* C5: after every commit, a user with a last_fetched_at has
\* next_check_at >= last_fetched_at.
C5_NextCheckNotBeforeLastFetch ==
    \A u \in DOMAIN users :
        IsSome(users[u].last_fetched_at) =>
            users[u].next_check_at >= Unwrap(users[u].last_fetched_at)

\* C6: every stored user's fetch_interval_minutes lies in [MIN, MAX] of the
\* configuration, after any sequence of store operations.
C6_IntervalInBand ==
    \A u \in DOMAIN users :
        /\ config.min_interval_minutes <= users[u].fetch_interval_minutes
        /\ users[u].fetch_interval_minutes <= config.max_interval_minutes

\* C6 witness: a user was deferred after an ingest had recomputed its interval
\* away from the one it was created with
C6_Witness ==
    \E u \in DOMAIN users :
        /\ ghost.last[u] = "deferred"
        /\ users[u].star_count > 0
        /\ users[u].fetch_interval_minutes # config.max_interval_minutes

\* C7: a store write is all-or-nothing: while a store call is in progress, and
\* after one that failed, a reader sees the user's row and star rows as they
\* were when the call began.
C7_WritesAtomic ==
    \A t \in DOMAIN tasks :
        (InStoreCall(t) \/ tasks[t].result = "Store") =>
            LET given == Unwrap(ghost.given[t[2]])
            IN  /\ UserRecord(users, t[2]) = given.user
                /\ Cardinality(StarRowsOf(t[2])) = given.rows

\* C8: an insert_star_events call that is given the events of the previous
\* call for that user leaves star_count, last_starred_at, ema_minutes,
\* fetch_interval_minutes and activity_tier as that call left them.
C8_InsertIdempotent ==
    \A t \in DOMAIN tasks :
        LET u == t[2]
            given == Unwrap(ghost.given[u])
        IN  (tasks[t].pc = "done" /\ tasks[t].result = "ok" /\ ghost.repeated[u]) =>
                /\ Cardinality(StarRowsOf(u)) = given.rows
                /\ users[u].star_count = given.user.star_count
                /\ users[u].last_starred_at = given.user.last_starred_at
                /\ users[u].ema_minutes = given.user.ema_minutes
                /\ users[u].fetch_interval_minutes = given.user.fetch_interval_minutes
                /\ users[u].activity_tier = given.user.activity_tier

\* C9: storing a NotModified answer changes nothing of the user but
\* last_fetched_at and next_check_at, which both move forward, and no star row.
C9_NotModifiedFrame ==
    [][\A t \in DOMAIN tasks :
           (tasks[t].pc = "store_nm" /\ t \in DOMAIN tasks' /\ tasks'[t].result = "ok") =>
               LET u == tasks[t].user.user_id
               IN  /\ stars' = stars
                   /\ users'[u].star_count = users[u].star_count
                   /\ users'[u].last_starred_at = users[u].last_starred_at
                   /\ users'[u].ema_minutes = users[u].ema_minutes
                   /\ users'[u].fetch_interval_minutes = users[u].fetch_interval_minutes
                   /\ users'[u].etag = users[u].etag
                   /\ users'[u].last_modified = users[u].last_modified
                   /\ users'[u].login = users[u].login
                   /\ users'[u].activity_tier = users[u].activity_tier
                   /\ users'[u].last_fetched_at = Some(tasks[t].fetched_at)
                   /\ IsSome(users[u].last_fetched_at) =>
                          Unwrap(users[u].last_fetched_at) <= tasks[t].fetched_at
                   /\ users'[u].next_check_at > users[u].next_check_at
                   /\ \A o \in DOMAIN users \ {u} : users'[o] = users[o]]_vars

\* C9 witness: a NotModified was stored for a user that has stars and validators
C9_Witness ==
    \E u \in DOMAIN users :
        /\ ghost.last[u] = "not_modified"
        /\ users[u].star_count > 0
        /\ IsSome(users[u].etag)

SameStarKey(r1, r2) ==
    /\ r1.user_id = r2.user_id
    /\ r1.repo_full_name = r2.repo_full_name
    /\ r1.starred_at = r2.starred_at

\* C10: there is at most one star row per (user_id, repo_full_name,
\* starred_at); inserting a duplicate neither fails nor changes a stored row.
C10_StarKeyUnique ==
    /\ [](\A r1, r2 \in stars : SameStarKey(r1, r2) => r1 = r2)
    /\ [][/\ stars \subseteq stars'
          /\ \A t \in DOMAIN tasks :
                 (tasks[t].pc = "store_tx1" /\ tasks'[t].pc = "store_update") =>
                     \A e \in tasks[t].events : \E r \in stars' :
                         /\ r.user_id = tasks[t].user.user_id
                         /\ r.repo_full_name = e.repo_full_name
                         /\ r.starred_at = e.starred_at]_vars

\* C10 witness: an ingest delivered an event whose key was already stored,
\* with another fetched_at
C10_Witness ==
    \E t \in DOMAIN tasks :
        /\ tasks[t].pc = "store_update"
        /\ tasks[t].inserted < Cardinality(tasks[t].events)
        /\ \E r \in stars : r.user_id = tasks[t].user.user_id /\ r.fetched_at # tasks[t].fetched_at

\* C11: a user's last_starred_at, when present, is the greatest starred_at of
\* the user's star rows, and no step moves it backwards or clears it.
C11_LastStarredIsMax ==
    /\ [](\A u \in DOMAIN users :
              IsSome(users[u].last_starred_at) =>
                  /\ \E r \in StarRowsOf(u) : r.starred_at = Unwrap(users[u].last_starred_at)
                  /\ \A r \in StarRowsOf(u) : r.starred_at <= Unwrap(users[u].last_starred_at))
    /\ [][\A u \in DOMAIN users :
              IsSome(users[u].last_starred_at) =>
                  /\ IsSome(users'[u].last_starred_at)
                  /\ Unwrap(users'[u].last_starred_at) >= Unwrap(users[u].last_starred_at)]_vars

\* C11 witness: the first transaction of an ingest has committed a batch whose
\* newest event is older than the user's last_starred_at
C11_Witness ==
    \E t \in DOMAIN tasks :
        /\ tasks[t].pc = "store_update"
        /\ tasks[t].events # {}
        /\ IsSome(users[t[2]].last_starred_at)
        /\ MaxStarredAt(tasks[t].events) < Unwrap(users[t[2]].last_starred_at)

\* C12: a user with star_count = 0, newly upserted or left so by an ingest,
\* has no ema_minutes, fetch_interval_minutes = MAX and activity_tier low.
C12_ZeroStarsProfile ==
    \A u \in DOMAIN users :
        users[u].star_count = 0 =>
            /\ users[u].ema_minutes = None
            /\ users[u].fetch_interval_minutes = config.max_interval_minutes
            /\ users[u].activity_tier = Some("low")

\* C15: upsert_followings changes nothing of a stored user but its login, and
\* applying a list of followings a second time, at any later moment, changes
\* nothing at all.
C15_UpsertIdempotent ==
    /\ [](\A followings \in FollowingLists :
              LET once == upsert_followings(users, followings, config.max_interval_minutes, now)
              IN  once.ok =>
                      \A later \in {now, now + ClockStep} :
                          upsert_followings(once.users, followings,
                                            config.max_interval_minutes, later) = once)
    /\ [][(users' # users /\ tasks' = tasks) =>
              \A u \in DOMAIN users :
                  /\ u \in DOMAIN users'
                  /\ users'[u] = [users[u] EXCEPT !.login = users'[u].login]]_vars

\* C15 witness: upsert_followings has changed the login of a stored user that
\* has ingested stars
C15_Witness ==
    /\ ghost.renamed
    /\ \E u \in DOMAIN users : users[u].star_count > 0 /\ IsSome(users[u].etag)

\* the tier table: at most 60 minutes high, 61 to 1440 medium, above low
TierTable(interval_minutes) ==
    IF interval_minutes <= 60 THEN "high"
    ELSE IF interval_minutes <= 1440 THEN "medium"
    ELSE "low"

\* C14: every stored user's activity_tier is the tier-table image of its
\* fetch_interval_minutes, also for a user just inserted by upsert_followings.
C14_TierFromInterval ==
    \A u \in DOMAIN users :
        users[u].activity_tier = Some(TierTable(users[u].fetch_interval_minutes))

\* C31: the value insert_star_events has returned is the
\* fetch_interval_minutes stored for the user when the call completes, for an
\* empty batch as for any other.
C31_ReturnsStoredInterval ==
    \A u \in UserIds :
        (IsSome(ghost.printed[u]) /\ u \in DOMAIN users) =>
            Unwrap(ghost.printed[u]) = users[u].fetch_interval_minutes

\* C37: a Modified ingest that has left a user with star_count >= 3 has left
\* it with ema_minutes present.
C37_EmaPresentFromThreeStars ==
    [][\A u \in DOMAIN users :
           (/\ ghost.printed[u] = None
            /\ IsSome(ghost.printed'[u])
            /\ users'[u].star_count >= 3) =>
               IsSome(users'[u].ema_minutes)]_vars

\* C39: under the one configuration of the store, a stored ema_minutes lies in
\* [min', max'] and the stored fetch_interval_minutes is its rounding.
C39_IntervalIsRoundedEma ==
    \A u \in DOMAIN users :
        IsSome(users[u].ema_minutes) =>
            LET ema == Unwrap(users[u].ema_minutes)
            IN  /\ ~RatLess(ema, RatOfInt(config.min_interval_minutes))
                /\ ~RatLess(RatOfInt(config.max_interval_minutes), ema)
                /\ users[u].fetch_interval_minutes = RatRound(ema)

\* an ingest has stored an EMA for a user with three stars, and an interval
\* that is not the default one
C39_Witness ==
    \E u \in DOMAIN users :
        /\ IsSome(users[u].ema_minutes)
        /\ users[u].star_count >= 3
        /\ users[u].fetch_interval_minutes # config.default_interval_minutes
        /\ ghost.last[u] = "modified"

----------------------------------------------------------------------------
\* Properties of the CadenceEngine.

\* C13: for a new star count of 1 or 2, recompute_interval returns no EMA and
\* the default interval clamped into [MIN, MAX], whatever the previous
\* interval, the previous EMA and the gaps are.
C13_SparseHistoryFallsBack ==
    (IsSome(ghost.profile) /\ ghost.input.new_star_count \in {1, 2}) =>
        /\ Unwrap(ghost.profile).ema_minutes = None
        /\ Unwrap(ghost.profile).interval_minutes =
               Clamp(config.default_interval_minutes,
                     config.min_interval_minutes, config.max_interval_minutes)

\* C13 witness: the fallback was taken although the previous state had an EMA,
\* an interval other than the default and two gaps were supplied
C13_Witness ==
    /\ IsSome(ghost.profile)
    /\ ghost.input.new_star_count = 2
    /\ IsSome(ghost.input.previous_ema)
    /\ ghost.input.previous_interval = 90
    /\ Len(ghost.input.gaps) = 2
    /\ config.default_interval_minutes > config.max_interval_minutes

\* alpha * g + (1 - alpha) * ema with alpha = 0.3 and g floored at 1, kept
\* within [min', max'], as the EMA update is specified
SmoothedEma(g, ema, cfg) ==
    LET lo == Max2(cfg.min_interval_minutes, 1)
        hi == Max2(cfg.max_interval_minutes, lo)
        floored == IF g < 1 THEN 1 ELSE g
        n == 3 * floored * ema.d + 7 * ema.n
        d == 10 * ema.d
    IN  IF n < lo * d THEN [n |-> lo, d |-> 1]
        ELSE IF n > hi * d THEN [n |-> hi, d |-> 1]
        ELSE [n |-> n, d |-> d]

\* C32: with an EMA present and a star counter that is at least 3 at every gap,
\* recompute_interval walks the gaps left to right, each replacing the EMA by
\* clamp(0.3 * g + 0.7 * ema, min', max'), and returns that EMA with the
\* interval round(ema); min 10, max 10080, EMA 90 and gaps [30] give EMA 72,
\* interval 72 and tier medium.
C32_EmaSmoothing ==
    (/\ IsSome(ghost.profile)
     /\ IsSome(ghost.input.previous_ema)
     /\ ghost.input.previous_star_count >= 2
     /\ ghost.input.new_star_count >= 3
     /\ ghost.input.gaps # << >>) =>
        LET gaps == ghost.input.gaps
            first == SmoothedEma(gaps[1], Unwrap(ghost.input.previous_ema), config)
            expected == IF Len(gaps) = 1 THEN first ELSE SmoothedEma(gaps[2], first, config)
            profile == Unwrap(ghost.profile)
        IN  /\ IsSome(profile.ema_minutes)
            /\ Unwrap(profile.ema_minutes).n * expected.d
                   = expected.n * Unwrap(profile.ema_minutes).d
            /\ 2 * expected.d * profile.interval_minutes <= 2 * expected.n + expected.d
            /\ 2 * expected.d * (profile.interval_minutes + 1) > 2 * expected.n + expected.d
            /\ (/\ config.min_interval_minutes = 10
                /\ ghost.input.previous_ema = Some(RatOfInt(90))
                /\ gaps = <<30>>) =>
                   /\ profile.interval_minutes = 72
                   /\ profile.ema_minutes = Some(RatOfInt(72))
                   /\ profile.activity_tier = Some("medium")

\* the smoothing example: star counter 3 to 4, EMA 90, one gap of 30 minutes
C32_Witness ==
    /\ IsSome(ghost.profile)
    /\ config.min_interval_minutes = 10
    /\ ghost.input.previous_interval = 90
    /\ ghost.input.previous_star_count = 3
    /\ ghost.input.previous_ema = Some(RatOfInt(90))
    /\ ghost.input.new_star_count = 4
    /\ ghost.input.gaps = <<30>>
    /\ Unwrap(ghost.profile).interval_minutes = 72

\* C33: when the star counter reaches 3 at one of the gaps and no EMA is
\* present, the EMA is first set to the average positive gap of the user's
\* stored stars (default' if there is none) clamped into [min', max'], and the
\* update for that gap and for the later ones is applied to it; stars at T,
\* T + 1440 and T + 2160 minutes with gaps [720] give EMA 972, interval 972.
C33_EmaBootstrap ==
    (/\ IsSome(ghost.profile)
     /\ ghost.input.previous_ema = None
     /\ ghost.input.new_star_count >= 3
     /\ ghost.input.gaps # << >>
     /\ ghost.input.previous_star_count + Len(ghost.input.gaps) >= 3) =>
        LET gaps == ghost.input.gaps
            lo == Max2(config.min_interval_minutes, 1)
            hi == Max2(config.max_interval_minutes, lo)
            avg == compute_average_gap_minutes(stars, 1)
            seed == IF IsSome(avg) THEN Unwrap(avg)
                    ELSE RatOfInt(Clamp(config.default_interval_minutes, lo, hi))
            clamped == RatClamp(seed, RatOfInt(lo), RatOfInt(hi))
            reached == Max2(3 - ghost.input.previous_star_count, 1)
            first == SmoothedEma(gaps[reached], clamped, config)
            expected == IF reached = Len(gaps) THEN first
                        ELSE SmoothedEma(gaps[Len(gaps)], first, config)
            profile == Unwrap(ghost.profile)
        IN  /\ IsSome(profile.ema_minutes)
            /\ Unwrap(profile.ema_minutes).n * expected.d
                   = expected.n * Unwrap(profile.ema_minutes).d
            /\ profile.interval_minutes = RatRound(expected)
            /\ (/\ config.min_interval_minutes = 10
                /\ stars # {}
                /\ ghost.input.previous_star_count = 2
                /\ gaps = <<720>>) =>
                   /\ profile.ema_minutes = Some(RatOfInt(972))
                   /\ profile.interval_minutes = 972

\* the bootstrap example: star counter 2 to 3, no EMA, three stored stars
C33_Witness ==
    /\ IsSome(ghost.profile)
    /\ config.min_interval_minutes = 10
    /\ stars # {}
    /\ ghost.input.previous_star_count = 2
    /\ ghost.input.previous_ema = None
    /\ ghost.input.new_star_count = 3
    /\ ghost.input.gaps = <<720>>
    /\ Unwrap(ghost.profile).interval_minutes = 972

----------------------------------------------------------------------------
\* Properties of the poller.

\* every user of the cycle's due list has been written since the list was
\* read, by an update that left next_check_at after the cycle's now or by a
\* deferral that left it at least the wait after it
DueUsersHandled ==
    \A u \in ghost.due :
        \/ /\ ghost.last[u] \in {"not_modified", "modified"}
           /\ users[u].next_check_at > sched.cycle_now
        \/ /\ ghost.last[u] = "deferred"
           /\ users[u].next_check_at >= sched.cycle_now + ghost.wait[u]

\* C1: whenever poll_once returns Ok, every user that was due at the cycle's
\* now has been updated (NotModified or Modified) with next_check_at > now or
\* deferred with next_check_at >= now + wait; none is left untouched.
C1_CycleBoundary ==
    [][(sched.pc \in {"due", "awaiting"} /\ sched'.pc = "idle" /\ sched'.result = "ok")
           => DueUsersHandled']_vars

\* C1 witness: a cycle with two due users has returned Ok, one of them
\* deferred and one ingested
C1_Witness ==
    /\ sched.pc = "idle" /\ sched.result = "ok"
    /\ Cardinality(ghost.due) = 2
    /\ \E u \in ghost.due : ghost.last[u] = "deferred"
    /\ \E u \in ghost.due : ghost.last[u] = "modified"

\* fetch tasks that have started process_user and have not returned
InFlight == {t \in DOMAIN tasks : tasks[t].pc # "done"}

\* C2: while a cycle runs, at most MAX_CONCURRENCY fetch tasks are in flight.
C2_InFlightBounded ==
    sched.pc \notin {"idle", "exited"} =>
        Cardinality(InFlight) <= config.max_concurrency

\* permits of the Semaphore of cycle c that tasks own
Held(c) == {t \in DOMAIN tasks : tasks[t].cycle = c /\ tasks[t].permit}

\* the permit the spawn loop has acquired and not yet moved into a task
InHand(c) == IF c = sched.cycle /\ sched.held THEN 1 ELSE 0

\* C3: a fetch task owns one permit from its spawn until it returns, on every
\* outcome, and for each Semaphore the permits held by tasks, the one on its
\* way into a task and the free ones add up to MAX_CONCURRENCY.
C3_PermitsConserved ==
    /\ \A c \in DOMAIN sched.permits :
           sched.permits[c] + Cardinality(Held(c)) + InHand(c) = config.max_concurrency
    /\ \A t \in DOMAIN tasks : tasks[t].permit <=> tasks[t].pc # "done"

\* C3 witness: in one cycle a task has returned an error and given its permit
\* back, and the task spawned with that permit sleeps on a rate limit
C3_Witness ==
    \E t1, t2 \in DOMAIN tasks :
        /\ tasks[t1].cycle = tasks[t2].cycle
        /\ tasks[t1].cycle \in DOMAIN sched.permits
        /\ tasks[t1].pc = "done" /\ tasks[t1].result # "ok"
        /\ tasks[t2].pc = "sleep" /\ tasks[t2].permit

\* C16: a RateLimited(wait) answer for one user is recovered locally: the
\* deferral leaves next_check_at >= now + wait, the task keeps its permit while
\* it sleeps and, unless the process ends first, returns Ok not before wait has
\* passed, and a cycle in which a user was deferred and which returns Ok has
\* handled every due user.
C16_RateLimitedRecoveredLocally ==
    /\ [](\A t \in DOMAIN tasks : tasks[t].pc = "sleep" => tasks[t].permit)
    /\ [][\A t \in DOMAIN tasks :
              /\ (tasks[t].pc = "store_defer" /\ t \in DOMAIN tasks' /\ tasks'[t].pc = "sleep") =>
                     users'[tasks[t].user.user_id].next_check_at >= now + tasks[t].wait
              /\ (/\ tasks[t].pc = "sleep" /\ sched'.pc # "exited"
                  /\ (t \notin DOMAIN tasks' \/ tasks'[t].pc # "sleep")) =>
                     /\ now >= tasks[t].fetched_at + tasks[t].wait
                     /\ t \in DOMAIN tasks' => tasks'[t].result = "ok"]_vars
    /\ [][(/\ sched.pc = "awaiting" /\ sched'.pc = "idle" /\ sched'.result = "ok"
           /\ \E u \in ghost.due : ghost.last[u] = "deferred")
              => DueUsersHandled']_vars

\* C16 witness: a cycle with two due users has returned Ok, one of them
\* deferred after a rate limit and the other polled with a 304
C16_Witness ==
    /\ sched.pc = "idle" /\ sched.result = "ok"
    /\ Cardinality(ghost.due) = 2
    /\ \E u \in ghost.due : ghost.last[u] = "deferred" /\ ghost.wait[u] > 0
    /\ \E u \in ghost.due : ghost.last[u] = "not_modified"

\* GitHubApiError::Auth and GitHubApiError::Forbidden
Fatal == {"Auth", "Forbidden"}

\* C17: Auth or Forbidden is fatal.  From the followings fetch poll_once
\* returns the error with no store write and no fetch task of that cycle; a
\* fetch task that gets it writes nothing and returns it, and poll_once does
\* not return Ok once it holds such a result.
C17_AuthForbiddenFatal ==
    /\ [][(sched.pc = "followings" /\ sched'.pc \in {"idle", "exited"}) =>
              /\ sched'.result \in Fatal \cup {"Other"}
              /\ users' = users /\ stars' = stars
              /\ \A t \in DOMAIN tasks : tasks[t].cycle # sched.cycle]_vars
    /\ [][\A t \in DOMAIN tasks :
              (/\ tasks[t].pc = "fetch" /\ t \in DOMAIN tasks'
               /\ tasks'[t].result \in Fatal) =>
                  /\ tasks'[t].pc = "done"
                  /\ users' = users /\ stars' = stars]_vars
    /\ [][(/\ sched.pc = "awaiting"
           /\ \E t \in sched.handles : tasks[t].pc = "done" /\ tasks[t].result \in Fatal)
              => sched'.result # "ok"]_vars

\* C17 witness: in a cycle with two due users one was ingested and the other
\* got Auth from its fetch; poll_once has returned that error and the second
\* user has not been written
C17_Witness ==
    /\ sched.pc = "idle" /\ sched.result = "Auth" /\ sched.from = "awaiting"
    /\ Cardinality(ghost.due) = 2
    /\ \E u \in ghost.due : ghost.last[u] = "modified"
    /\ \E u \in ghost.due : ghost.last[u] = "none" /\ users[u].next_check_at <= sched.cycle_now

\* C18: a transient error of a fetch fails the task and the cycle and leaves
\* the user due, and the poller then waits for its next tick, which polls the
\* user again: the process has not ended.
C18_TransientRetriedNextTick ==
    [][\A t \in sched.handles :
           (/\ sched.pc = "awaiting" /\ tasks[t].pc = "done" /\ tasks[t].result = "Other"
            /\ sched'.result = "Other") =>
               /\ sched'.pc = "idle"
               /\ users'[t[2]].next_check_at <= now]_vars

\* C19: the process never ends because of the error of one user's fetch
\* task, in any cycle: it does not end on an error poll_once returns from its
\* await loop.
C19_NoExitOnUserProblem ==
    sched.pc = "exited" => sched.from # "awaiting"

\* C20: once poll_once has returned the fatal error of a fetch task, no fetch
\* task of that cycle is running any more.
C20_OutstandingAborted ==
    (sched.pc = "idle" /\ sched.from = "awaiting" /\ sched.result \in Fatal) =>
        \A t \in DOMAIN tasks : tasks[t].cycle # sched.cycle

\* C21: once a fetch task of the running cycle has returned a fatal error, no
\* further fetch task is spawned in that cycle.
C21_NoSpawnAfterFatal ==
    [][(\E t \in sched.handles : tasks[t].pc = "done" /\ tasks[t].result \in Fatal)
           => DOMAIN tasks' \subseteq DOMAIN tasks]_vars

\* C22: a rate-limited followings fetch is retried once after the advertised
\* wait: one fetch_followings_with_retry makes at most two fetch_followings
\* calls.
C22_FollowingsRetriedOnce ==
    ghost.attempts <= 2

\* C29: at no time are two fetch tasks for the same user in flight.
C29_OneTaskPerUser ==
    \A t1 \in InFlight : \A t2 \in InFlight :
        tasks[t1].user.user_id = tasks[t2].user.user_id => t1 = t2

\* C30: poll_once itself never holds a permit of the Semaphore.
C30_TopLevelHoldsNoPermit ==
    ~sched.held

\* C26: a user that upsert_followings inserts is stored with next_check_at =
\* the time of the insertion, fetch_interval_minutes = max_interval_minutes and
\* star_count = 0; it is in the list due_users returns to the same cycle (which
\* therefore is not empty), and the spawn loop of that cycle starts a fetch
\* task for it.
C26_NewUserPolledAtOnce ==
    [][/\ (sched.pc = "upsert" /\ sched'.pc = "due") =>
              \A u \in DOMAIN users' \ DOMAIN users :
                  /\ u \in ghost'.fresh
                  /\ users'[u].next_check_at = now
                  /\ users'[u].fetch_interval_minutes = config.max_interval_minutes
                  /\ users'[u].star_count = 0
       /\ (sched.pc = "due" /\ sched'.pc = "spawning") => ghost.fresh \subseteq ghost'.due
       /\ (sched.pc = "due" /\ sched'.pc \in {"idle", "exited"} /\ sched'.result = "ok") =>
              ghost.fresh = {}
       /\ (sched.pc = "spawning" /\ sched'.pc = "awaiting") =>
              \A u \in ghost.fresh : <<sched.cycle, u>> \in sched'.handles
      ]_vars

\* in a later cycle a user was first seen, and its fetch task has run
C26_Witness ==
    /\ sched.pc = "awaiting"
    /\ sched.cycle >= 2
    /\ ghost.fresh = {NumUsers}
    /\ now > 0
    /\ <<sched.cycle, NumUsers>> \in DOMAIN tasks
    /\ tasks[<<sched.cycle, NumUsers>>].pc = "done"
    /\ tasks[<<sched.cycle, NumUsers>>].result = "ok"

----------------------------------------------------------------------------
\* Properties of the server.

\* C23: after the shutdown signal the Poller starts no new cycle.
C23_NoCycleAfterShutdown ==
    [][sched.signalled => ~(sched.pc = "select" /\ sched'.pc = "polling")]_vars


\* C24: whenever no cycle is running, a finish has been recorded that is not
\* earlier than the recorded start, and last_error is the error of the most
\* recently finished cycle (absent when that cycle succeeded); a cycle that is
\* running was started no earlier than the previous finish.
C24_SnapshotFollowsCycles ==
    /\ sched.pc \in {"select", "stopped", "exited"} =>
           /\ IsSome(sched.snapshot.last_poll_finished)
           /\ IsSome(sched.snapshot.last_poll_started)
           /\ Unwrap(sched.snapshot.last_poll_finished)
                  >= Unwrap(sched.snapshot.last_poll_started)
           /\ IsSome(ghost.finished)
           /\ sched.snapshot.last_error = ErrorOf(Unwrap(ghost.finished))
    /\ sched.pc = "polling" =>
           /\ IsSome(sched.snapshot.last_poll_finished)
           /\ Unwrap(sched.snapshot.last_poll_started)
                  >= Unwrap(sched.snapshot.last_poll_finished)

\* a successful cycle has finished after one that failed, and the error is gone
C24_Witness ==
    /\ sched.pc = "select"
    /\ ghost.previous = Some("Other")
    /\ ghost.finished = Some("ok")
    /\ sched.snapshot.last_error = None
    /\ Unwrap(sched.snapshot.last_poll_finished) > Unwrap(sched.snapshot.last_poll_started)


\* C25: the status answer is stale exactly when the snapshot it was computed
\* from has a finish time and more than twice the refresh period has passed
\* since; with no finish, or exactly twice the period, it is not stale.
C25_StaleAfterTwicePeriod ==
    /\ IsSome(ghost.status) =>
           LET status == Unwrap(ghost.status)
           IN  status.is_stale =
                   /\ IsSome(status.finished)
                   /\ status.at - Unwrap(status.finished)
                          > 2 * Minutes(config.refresh_minutes)
    /\ ~is_stale(refresh_interval(config.refresh_minutes), now, NewSnapshot)

\* the status was asked exactly twice the refresh period after the finish
C25_Witness ==
    /\ IsSome(ghost.status)
    /\ IsSome(Unwrap(ghost.status).finished)
    /\ Unwrap(ghost.status).at - Unwrap(Unwrap(ghost.status).finished)
           = 2 * Minutes(config.refresh_minutes)
    /\ ~Unwrap(ghost.status).is_stale

----------------------------------------------------------------------------
\* Properties of next_check_with_jitter.

\* C28: for an interval I > 0 the scheduled time is between max(1, I - J) and
\* I + J minutes after the base, where J is the least whole number of minutes
\* that is at least a tenth of I, kept within 1 .. 30; for every interval the
\* scheduled time is at least one minute after the base.
C28_JitterWithinBounds ==
    sched.pc = "scheduled" =>
        LET I == sched.interval_minutes
            delta == Unwrap(sched.next_check_at) - now
            tenth == CHOOSE j \in 0 .. I : 10 * j >= I /\ 10 * (j - 1) < I
            J == IF tenth < 1 THEN 1 ELSE IF tenth > 30 THEN 30 ELSE tenth
        IN  /\ delta >= 60
            /\ I > 0 => /\ delta >= 60 * (IF I - J > 1 THEN I - J ELSE 1)
                        /\ delta <= 60 * (I + J)

\* an interval of one minute drew the jitter -1 and was floored at one minute
C28_Witness ==
    /\ sched.pc = "scheduled"
    /\ sched.interval_minutes = 1
    /\ ghost.jitter = -1
    /\ Unwrap(sched.next_check_at) = now + 60

----------------------------------------------------------------------------
\* Properties of the forge client.

\* C34: every event fetch_starred returns for a known_latest is strictly
\* newer than it; the page that is empty, short or holds an event not newer
\* than known_latest is the last one requested, and no page past the end of
\* the listing but the first empty one is requested.
C34_OnlyNewerEvents ==
    /\ [](IsSome(sched.known_latest) =>
              \A i \in DOMAIN sched.events : sched.events[i] > Unwrap(sched.known_latest))
    /\ [](sched.page <= Len(sched.listing) \div PER_PAGE + 1)
    /\ [][LET body == PageOf(sched.listing, sched.page)
          IN  (\/ Len(body) < PER_PAGE
               \/ \E i \in DOMAIN body :
                      IsSome(sched.known_latest) /\ body[i] <= Unwrap(sched.known_latest))
                  => sched'.pc = "returned"]_vars

\* two pages were read; the second held a star at known_latest itself, which
\* was left out with the older one after it
C34_Witness ==
    /\ sched.pc = "returned"
    /\ sched.page = 2
    /\ sched.known_latest = Some(30)
    /\ sched.listing = <<600, 600, 30, 0>>
    /\ sched.events = <<600, 600>>


\* C27: both fetch_followings and fetch_starred answer 401 with Auth, 403
\* carrying a Retry-After header with RateLimited (of the header's seconds),
\* 403 without the header with Forbidden, 304 with NotModified, and a failed
\* request, an unreadable body or any other status with Other.
C27_StatusMapping ==
    sched.pc \in {"followings", "starred"} =>
        LET response == sched.response
            outcome == Unwrap(sched.outcome)
        IN  /\ (response.sent /\ response.status = 401) => outcome.kind = "Auth"
            /\ (response.sent /\ response.status = 403 /\ IsSome(response.retry_after)) =>
                   outcome.kind = "RateLimited"
            /\ (response.sent /\ response.status = 403
                    /\ response.retry_after = Some(<<"6", "0">>)) => outcome.wait = 60
            /\ (response.sent /\ response.status = 403 /\ response.retry_after = None) =>
                   outcome.kind = "Forbidden"
            /\ (response.sent /\ response.status = 304) => outcome.kind = "NotModified"
            /\ (\/ ~response.sent
                \/ response.status \notin {200, 304, 401, 403}
                \/ response.status = 200 /\ ~response.body_ok) => outcome.kind = "Other"

\* C35: a snapshot the status surface has read holds the remaining and reset
\* values of one and the same response.
C35_SnapshotOfOneResponse ==
    IsSome(sched.status) =>
        LET status == Unwrap(sched.status)
        IN  \/ status = NewRateLimit
            \/ \E k \in 1 .. MaxResponses :
                   /\ status.remaining \in {None, Some(50 + k)}
                   /\ status.reset_at \in {None, Some(100 + k)}

----------------------------------------------------------------------------
\* Properties of init.

\* C36: once init has run, every user's star_count is the number of its star
\* rows and every tier that was absent is the tier of the row's
\* fetch_interval_minutes; running init again changes no users or stars row.
C36_InitIdempotent ==
    /\ [](sched.inits >= 1 =>
              \A u \in DOMAIN users :
                  /\ users[u].star_count = Cardinality(StarRowsOf(u))
                  /\ users[u].activity_tier # None
                  /\ u \in ghost.absent =>
                         users[u].activity_tier =
                             Some(derive_activity_tier(users[u].fetch_interval_minutes)))
    /\ [][sched.inits >= 1 => (users' = users /\ stars' = stars)]_vars

\* init has run twice on a store that held a user without a tier and with a
\* star_count that was not its number of star rows
C36_Witness ==
    /\ sched.inits = 2
    /\ 1 \in ghost.absent
    /\ users[1].star_count = 2
    /\ users[1].fetch_interval_minutes = 61

----------------------------------------------------------------------------
\* Properties of the termination of poll_once.

\* C38: every call of poll_once returns.
C38_PollOnceTerminates ==
    (sched.pc \notin {"idle", "exited"}) ~> (sched.pc \in {"idle", "exited"})

====
